---- MODULE Spec2Model ----
(***************************************************************************)
(* The Discord reply pipeline of eli5professor: the mentions queue         *)
(* (mentions.csv), the processed-ids ledger, the flock-based process lock  *)
(* and MentionsReader.process_mentions (src/src/post_replies.py), driven   *)
(* by the loops of post_replies.main and                                   *)
(* discord_bot_simple.run_reply_processor; the Discord listener that       *)
(* appends to the queue (src/src/get_discord_mentions.py); the Twitter bot *)
(* ELI5Bot with its last-seen cursor (src/src/main.py); the mentions       *)
(* fetcher MentionsBot (src/src/main2.py) and the rate limit waits         *)
(* (src/src/ratelimit.py); generation and its formatting (main.py, app.py, *)
(* post_replies.py) and the /explain endpoint (app.py); the start-up of    *)
(* the entry points and of the threads of discord_bot_simple.py; and       *)
(* mentions.csv as the csv module writes and reads it.                     *)
(***************************************************************************)
EXTENDS Integers, Sequences, FiniteSets, TLC

\* ------------------------------------------------------------- bounds
\* Pipeline processes (separate OS processes running process_mentions).
NumInst == 2
\* Distinct Discord message ids (the tweet_id column).
NumIds == 2
\* Longest initial queue of one pipeline process.
MaxQueue == 3
\* Longest initial queue when several pipeline processes share it.
MaxShared == 1
\* Config.NUM_MENTIONS is 10 in the source; the batch size is scaled down.
NUM_MENTIONS == 3
\* Mentions of the bot account on the Twitter timeline.
MaxTweets == 3
\* The cap of the listener's seen set (1000 in the code) and the number of
\* ids a trim keeps (500 in the code), scaled down.
SeenCap == 3
SeenKeep == 2
\* The limit of one history scan (100 in the code), scaled down.
HistLimit == 2
\* Mentions posted in the channel, and queue appends, of one listener run.
NumMsgs == 4
MaxAppends == 5
\* The length limit of a reply (twitter.max_tweet_length and
\* api.max_response_length, 280 by default), scaled down.
MAX_TWEET_LENGTH == 10
MAX_RESPONSE_LENGTH == 10
\* The pieces (a letter, a blank, the marker) of a generated text.
MaxRaw == 4
\* The characters of a keyword written to mentions.csv.
MaxCsvText == 3

Inst == 1..NumInst
Ids == 1..NumIds
\* tweet_id of a row whose tweet_id column is missing (None) or empty ('').
NoId == 0

\* ------------------------------------------------------------- texts
\* A text is a sequence of tokens: "H" the handle @eli5professor, "T" a
\* hashtag (#\w+), "P" one character of ":,-.@!#", "S" white space, "W" a word.
TextTopic == <<"W", "S", "T">>
TextBlank == <<"H", "S", "T">>
Texts == {TextTopic, TextBlank}

RECURSIVE DropTokens(_, _)
DropTokens(text, drop) ==
    IF text = <<>> THEN <<>>
    ELSE IF Head(text) \in drop THEN DropTokens(Tail(text), drop)
         ELSE <<Head(text)>> \o DropTokens(Tail(text), drop)

RECURSIVE LStrip(_, _)
LStrip(text, chars) ==
    IF text = <<>> THEN <<>>
    ELSE IF Head(text) \in chars THEN LStrip(Tail(text), chars)
         ELSE text

RECURSIVE RStrip(_, _)
RStrip(text, chars) ==
    IF text = <<>> THEN <<>>
    ELSE IF text[Len(text)] \in chars THEN RStrip(SubSeq(text, 1, Len(text) - 1), chars)
         ELSE text

\* MentionProcessor.extract_topic: re.sub of the handle, re.sub of the
\* hashtags, strip(), lstrip(":,-.@!# "). <<>> stands for the None it returns.
\* Mutant: the handle and the hashtags are not taken out.
extract_topic_KeepsTags(text) ==
    LStrip(RStrip(LStrip(text, {"S"}), {"S"}), {"P", "S"})

extract_topic(text) ==
    LStrip(RStrip(LStrip(DropTokens(text, {"H", "T"}), {"S"}), {"S"}), {"P", "S"})

\* -------------------------------------------------------------- rows
\* One line of mentions.csv as csv.DictReader yields it. cols is the number
\* of columns the line holds (timestamp, tweet_id, author_id,
\* author_username, text): a line with fewer than 5 has text None, a line
\* with fewer than 2 has tweet_id None. The author columns only label the
\* embed and are left out.
Row(ts, id, text, cols) == [ts |-> ts, tweet_id |-> id, text |-> text, cols |-> cols]

TextIsNone(row) == row.cols < 5

\* csv.DictWriter writes None as '': a rewritten short line is a full line
\* with empty columns.
WriteRow(row) == [row EXCEPT !.cols = 5]

RECURSIVE WriteRows(_)
WriteRows(rows) ==
    IF rows = <<>> THEN <<>> ELSE <<WriteRow(Head(rows))>> \o WriteRows(Tail(rows))

\* The lines the queue file can hold. Two lines can carry one tweet_id: the
\* listener's processed_messages set lives in memory, so a restarted listener
\* appends again what its history scan of the last minutes returns. A line can
\* be short: add_mention's append can be cut off after any column.
RowShapes ==
    {Row(0, id, text, 5) : id \in Ids, text \in Texts}
      \cup {Row(0, id, <<>>, 2) : id \in Ids}
      \cup {Row(0, NoId, <<>>, 1)}

\* The queues of at most n lines over the row shapes; datetime.now() stamps
\* the lines in append order.
\* Ids are names: a queue introduces them in the order 1, 2, ...
InOrder(f) ==
    \A k \in DOMAIN f : \A id \in 1..(f[k].tweet_id - 1) : \E h \in 1..(k - 1) : f[h].tweet_id = id

RECURSIVE Stamp(_, _)
Stamp(f, len) ==
    IF len = 0 THEN <<>> ELSE Append(Stamp(f, len - 1), [f[len] EXCEPT !.ts = len])

Queues(n, shapes) ==
    UNION {{Stamp(f, len) : f \in {g \in [1..len -> shapes] : InOrder(g)}} : len \in 0..n}

\* list.sort(key=timestamp) is stable: insertion after the last line that
\* is not later.
RECURSIVE InsertByTs(_, _)
InsertByTs(row, sorted) ==
    IF sorted = <<>> THEN <<row>>
    ELSE IF row.ts < Head(sorted).ts THEN <<row>> \o sorted
         ELSE <<Head(sorted)>> \o InsertByTs(row, Tail(sorted))

RECURSIVE SortByTs(_)
SortByTs(rows) ==
    IF rows = <<>> THEN <<>>
    ELSE InsertByTs(rows[Len(rows)], SortByTs(SubSeq(rows, 1, Len(rows) - 1)))

\* Mutant: the slice is one too long.
Take_OneMore(rows, n) == SubSeq(rows, 1, IF Len(rows) < n + 1 THEN Len(rows) ELSE n + 1)

\* mentions[:n].
Take(rows, n) == SubSeq(rows, 1, IF Len(rows) < n THEN Len(rows) ELSE n)

RECURSIVE Filter(_, _)
Filter(rows, tweet_ids) ==
    IF rows = <<>> THEN <<>>
    ELSE IF Head(rows).tweet_id \in tweet_ids THEN Filter(Tail(rows), tweet_ids)
         ELSE <<Head(rows)>> \o Filter(Tail(rows), tweet_ids)

RowIds(rows) == {rows[k].tweet_id : k \in 1..Len(rows)}

\* --------------------------------------------------- the csv module
\* A field is a sequence of characters (a column name stands as one).
\* The header row ensure_csv_exists writes.
HeaderRow ==
    <<<<"timestamp">>, <<"tweet_id">>, <<"author_id">>, <<"author_username">>, <<"text">>>>

\* Mutant: the field is written as it is.
csv_quote_Bare(field) == field

\* csv.writer, a field (QUOTE_MINIMAL, doublequote): a field with the
\* delimiter, the quote character or a line end in it is put in quotes,
\* every quote character in it doubled.
csv_quote(field) ==
    LET doubled[k \in 0..Len(field)] ==
          IF k = 0 THEN <<>>
          ELSE doubled[k - 1] \o (IF field[k] = "\"" THEN <<"\"", "\"">> ELSE <<field[k]>>)
    IN  IF \E k \in 1..Len(field) : field[k] \in {",", "\"", "\n", "\r"}
        THEN <<"\"">> \o doubled[Len(field)] \o <<"\"">>
        ELSE field

\* csv.writer.writerow: the fields joined by commas, then "\r\n".
writerow(fields) ==
    LET joined[k \in 1..Len(fields)] ==
          IF k = 1 THEN csv_quote(fields[1])
          ELSE joined[k - 1] \o <<",">> \o csv_quote(fields[k])
    IN  joined[Len(fields)] \o <<"\r", "\n">>

\* csv.reader over the characters of a file opened with newline='': the
\* parser of the csv module from character k on, in the state mode, with
\* the field and the row under way and the rows done. Blank lines give no
\* row (DictReader skips them).
RECURSIVE csv_parse(_, _, _, _, _, _)
csv_parse(chars, k, mode, field, row, rows) ==
    IF k > Len(chars)
    THEN (IF mode \in {"START_RECORD", "EAT_CRNL"} THEN rows
          ELSE Append(rows, Append(row, field)))
    ELSE LET c == chars[k]
             eol == c \in {"\n", "\r"}
         IN  CASE mode = "EAT_CRNL" /\ eol ->
                    csv_parse(chars, k + 1, "EAT_CRNL", <<>>, <<>>, rows)
               [] mode = "START_RECORD" /\ eol ->
                    csv_parse(chars, k + 1, "EAT_CRNL", <<>>, <<>>, rows)
               [] mode \in {"EAT_CRNL", "START_RECORD", "START_FIELD"} /\ ~ eol ->
                    (IF c = "\"" THEN csv_parse(chars, k + 1, "IN_QUOTED_FIELD", <<>>, row, rows)
                     ELSE IF c = "," THEN csv_parse(chars, k + 1, "START_FIELD", <<>>,
                                                    Append(row, <<>>), rows)
                     ELSE csv_parse(chars, k + 1, "IN_FIELD", <<c>>, row, rows))
               [] mode \in {"START_FIELD", "IN_FIELD", "QUOTE_IN_QUOTED_FIELD"} /\ eol ->
                    csv_parse(chars, k + 1, "EAT_CRNL", <<>>, <<>>,
                              Append(rows, Append(row, field)))
               [] mode = "IN_FIELD" /\ ~ eol ->
                    (IF c = "," THEN csv_parse(chars, k + 1, "START_FIELD", <<>>,
                                               Append(row, field), rows)
                     ELSE csv_parse(chars, k + 1, "IN_FIELD", Append(field, c), row, rows))
               [] mode = "IN_QUOTED_FIELD" ->
                    (IF c = "\"" THEN csv_parse(chars, k + 1, "QUOTE_IN_QUOTED_FIELD", field,
                                                row, rows)
                     ELSE csv_parse(chars, k + 1, "IN_QUOTED_FIELD", Append(field, c), row, rows))
               [] mode = "QUOTE_IN_QUOTED_FIELD" /\ ~ eol ->
                    (IF c = "\"" THEN csv_parse(chars, k + 1, "IN_QUOTED_FIELD",
                                                Append(field, c), row, rows)
                     ELSE IF c = "," THEN csv_parse(chars, k + 1, "START_FIELD", <<>>,
                                                    Append(row, field), rows)
                     ELSE csv_parse(chars, k + 1, "IN_FIELD", Append(field, c), row, rows))

\* csv.DictReader: the first row names the columns, every later row is a
\* dict of them; a column the row does not have is None.
DictReader(chars) ==
    LET rows == csv_parse(chars, 1, "START_RECORD", <<>>, <<>>, <<>>)
        col(r, name) ==
          IF \E k \in 1..Len(rows[1]) : rows[1][k] = name /\ k <= Len(rows[r])
          THEN rows[r][CHOOSE k \in 1..Len(rows[1]) : rows[1][k] = name /\ k <= Len(rows[r])]
          ELSE <<"None">>
    IN  [r \in 1..(Len(rows) - 1) |->
           [timestamp |-> col(r + 1, <<"timestamp">>), tweet_id |-> col(r + 1, <<"tweet_id">>),
            author_id |-> col(r + 1, <<"author_id">>),
            author_username |-> col(r + 1, <<"author_username">>),
            text |-> col(r + 1, <<"text">>)]]

\* ------------------------------------------------------------- state
VARIABLES
    queue,      \* mentions.csv: its data lines, in file order
    hdr,        \* mentions.csv starts with the header line
    ledger,     \* /tmp/eli5_processed_ids.txt: the ids it lists
    lockPath,   \* inode /tmp/eli5_mentions_processing.lock names, 0 when absent
    holds,      \* the processes whose descriptor holds the flock of its inode
    procs,      \* the pipeline processes of the deployment
    driver,     \* "main" (post_replies.main) or "simple" (run_reply_processor)
    pc, fd, processed_ids, mentions, idx, processed_tweet_ids, explanation,
    keep, fieldnames, log, outcome,
    delivered,  \* ids Discord accepted a message for
    enqueued,   \* ids that were put in the queue
    orphans     \* ids a crash left in the ledger and in the queue

\* The Twitter bot (ELI5Bot of main.py and twitter_stream.py).
VARIABLES
    timeline,   \* the mentions of the account, by tweet id: has it a subject
    cursor,     \* LAST_SEEN_FILE: the last seen tweet id, 0 when absent
    replied,    \* tweet ids a reply was posted to
    tpc,        \* where ELI5Bot.run is
    tmentions,  \* the tweet ids of the cycle, oldest first
    tidx,       \* the tweet the for loop is at
    tlimit,     \* the TooManyRequests raised in this cycle, <<>> when none
    texc,       \* the exception leaving process_mentions, <<>> when none
    twait       \* the seconds run sleeps before the next cycle

twitter == <<timeline, cursor, replied, tpc, tmentions, tidx, tlimit, texc, twait>>

\* The Discord listener (DiscordListener of get_discord_mentions.py).
VARIABLES
    processed_messages,  \* DiscordListener.processed_messages
    raced,               \* ids appended while a queue rewrite was under way
    channel,    \* the texts of the mentions posted in the channel, by id
    seen,       \* the ids add_mention was called with in this run, in order
    after,      \* the newest message id not after last_check_time - 5 min
    lpc,        \* where check_for_mentions is: "idle" or "fetched"
    history     \* the messages list check_for_mentions collected

listener == <<processed_messages, raced, channel, seen, after, lpc, history>>

\* The mentions fetcher (MentionsBot of main2.py) and the rate limit waits
\* (ratelimit.py, RateLimitHandler of main.py).
VARIABLES
    mpc,        \* where MentionsBot, or a caller of the rate limit helpers, is
    wsignal,    \* the TooManyRequests being handled, <<>> when none
    wresult,    \* what the seconds computation gave, <<>> before it ran
    wtotal,     \* total_seconds of the wait loop under way
    sleep_left, \* the loop variable of the wait loop
    slices,     \* the time.sleep calls of the wait loop, in order
    logged      \* the progress messages the wait loop logged

backoff == <<mpc, wsignal, wresult, wtotal, sleep_left, slices, logged>>

\* Generation (LLMClient of main.py and app.py, ELI5Generator of
\* post_replies.py).
VARIABLES
    gcall,      \* the generate call made last and what its strategies did
    gresponse   \* the string it returned

gen == <<gcall, gresponse>>

\* Start-up of the entry points (main.py, main2.py, get_discord_mentions.py,
\* post_replies.py).
VARIABLES
    started,      \* the program started, its environment and how far it got
    exit_code,  \* <<c>> once the process has ended with status c
    webhook     \* where Config of post_replies.py took the webhook URL from

boot == <<started, exit_code, webhook>>

\* Start-up of discord_bot_simple.py: the listener thread and the reply
\* processor (main thread) each make sure mentions.csv exists.
VARIABLES
    exists,     \* mentions.csv exists
    spos        \* per thread: "check", "open", "header", then "run"

\* The /explain endpoint of app.py.
VARIABLES
    http        \* <<the answer of the request made>>

\* mentions.csv as the characters csv.writer puts into it.
VARIABLES
    csv_file,       \* the characters of the file
    csv_appended,   \* the records add_mention was called with, in order
    csv_read        \* <<what read_mentions returned>>

\* The threads of discord_bot_simple.py that touch mentions.csv.
Threads == {"listener", "processor"}

vars == <<queue, hdr, ledger, lockPath, holds, procs, driver, gen, boot, exists, spos, http, csv_file, csv_appended, csv_read, pc, fd,
          processed_ids, mentions, idx, processed_tweet_ids, explanation,
          keep, fieldnames, log, outcome, delivered, enqueued, orphans, twitter, listener, backoff>>

shared == <<queue, hdr, ledger, delivered, orphans>>
lockVars == <<lockPath, holds, fd>>
locals == <<processed_ids, mentions, idx, processed_tweet_ids, explanation,
            keep, fieldnames, log>>
fixed == <<procs, driver, gen, boot, exists, spos, http, csv_file, csv_appended, csv_read, enqueued, twitter, listener, backoff>>

\* The Twitter bot is not started.
TwitterOff ==
    /\ timeline = <<>>
    /\ cursor = 0
    /\ replied = {}
    /\ tpc = "off"
    /\ tmentions = <<>>
    /\ tidx = 0
    /\ tlimit = <<>>
    /\ texc = <<>>
    /\ twait = 0

InitPipeline ==
    /\ pc = [i \in Inst |-> "idle"]
    /\ fd = [i \in Inst |-> 0]
    /\ processed_ids = [i \in Inst |-> {}]
    /\ mentions = [i \in Inst |-> <<>>]
    /\ idx = [i \in Inst |-> 0]
    /\ processed_tweet_ids = [i \in Inst |-> {}]
    /\ explanation = [i \in Inst |-> "none"]
    /\ keep = [i \in Inst |-> <<>>]
    /\ fieldnames = [i \in Inst |-> FALSE]
    /\ log = [i \in Inst |-> <<>>]
    /\ outcome = [i \in Inst |-> "none"]

\* The listener has appended nothing since it was started.
ListenerFresh ==
    /\ processed_messages = {}
    /\ raced = {}
    /\ channel = <<>>
    /\ seen = <<>>
    /\ after = 0
    /\ lpc = "idle"
    /\ history = <<>>
    /\ csv_file = writerow(HeaderRow)
    /\ csv_appended = <<>>
    /\ csv_read = <<>>

\* No rate limit wait is under way, MentionsBot is not started.
BackoffOff ==
    /\ mpc = "off"
    /\ wsignal = <<>>
    /\ wresult = <<>>
    /\ wtotal = 0
    /\ sleep_left = 0
    /\ slices = <<>>
    /\ logged = 0

\* No generate call was made.
GenOff ==
    /\ gcall = <<>>
    /\ gresponse = <<>>
    /\ http = <<>>

\* No entry point was started; mentions.csv exists and the threads of
\* discord_bot_simple.py are past their start-up.
BootOff ==
    /\ started = <<>>
    /\ exit_code = <<>>
    /\ webhook = "none"
    /\ exists = TRUE
    /\ spos = [t \in Threads |-> "run"]

InitLocals == InitPipeline /\ TwitterOff /\ ListenerFresh /\ BackoffOff /\ GenOff /\ BootOff

InitStore(queues) ==
    /\ queue \in queues
    /\ hdr = TRUE
    /\ ledger = {}
    /\ delivered = {}
    /\ enqueued = RowIds(queue) \ {NoId}
    /\ orphans = {}
    /\ holds = {}

\* ------------------------------------------------------------ helpers
\* csv.DictReader over mentions.csv: no header line, no rows.
read_mentions == IF hdr THEN queue ELSE <<>>

\* Mutant: the lines are not sorted before the slice.
get_oldest_mentions_Unsorted(num_mentions) == Take(read_mentions, num_mentions)

\* Mutant: the sorted lines are not sliced.
get_oldest_mentions_Unsliced(num_mentions) == SortByTs(read_mentions)

\* get_oldest_mentions: read_mentions, sort by timestamp, the first
\* num_mentions of them.
get_oldest_mentions(num_mentions) == Take(SortByTs(read_mentions), num_mentions)

\* The inode os.open(O_CREAT) makes when the lock path names none: one that
\* no open descriptor refers to.
FreshInode == CHOOSE n \in 1..NumInst : \A j \in Inst : fd[j] # n

\* Mutant: the lock is taken shared (LOCK_SH), which is always granted.
FlockGranted_Shared(i) == TRUE

\* fcntl.flock(lock_fd, LOCK_EX | LOCK_NB) is granted unless another open
\* file description holds the lock of the same inode.
FlockGranted(i) == ~ \E j \in holds : j # i /\ fd[j] = fd[i]

\* Where the for loop goes after the item at idx: the next item, or past the
\* loop to the final cleanup (only with processed_tweet_ids) and the return.
AfterItem(i) ==
    IF idx[i] < Len(mentions[i]) THEN "item"
    ELSE IF processed_tweet_ids[i] # {} THEN "fin_read" ELSE "ret"

Continue(i, entry) ==
    /\ pc' = [pc EXCEPT ![i] = AfterItem(i)]
    /\ idx' = [idx EXCEPT ![i] = IF idx[i] < Len(mentions[i]) THEN idx[i] + 1 ELSE idx[i]]
    /\ log' = [log EXCEPT ![i] = Append(log[i], entry)]

\* What the driver loop does with process_mentions' end: post_replies.main
\* leaves its loop on an exception, run_reply_processor logs it and goes on.
AfterCall(i) == IF outcome[i] = "raised" /\ driver = "main" THEN "dead" ELSE "idle"

\* ----------------------------------------------------------- actions
\* acquire_lock, os.open(O_CREAT | O_WRONLY | O_TRUNC).
AcquireOpen(i) ==
    /\ i \in procs
    /\ pc[i] = "idle"
    /\ lockPath' = IF lockPath = 0 THEN FreshInode ELSE lockPath
    /\ fd' = [fd EXCEPT ![i] = lockPath']
    /\ pc' = [pc EXCEPT ![i] = "flock"]
    /\ outcome' = [outcome EXCEPT ![i] = "none"]
    /\ UNCHANGED <<shared, holds, locals, fixed>>

\* Mutant: process_mentions does not test lock_fd for None and goes on.
AcquireFlock_IgnoreNone(i) ==
    /\ i \in procs
    /\ pc[i] = "flock"
    /\ holds' = IF FlockGranted(i) THEN holds \cup {i} ELSE holds
    /\ pc' = [pc EXCEPT ![i] = "load"]
    /\ UNCHANGED <<shared, lockPath, fd, outcome, locals, fixed>>

\* acquire_lock, fcntl.flock: the descriptor, or None when the lock is held
\* (the descriptor opened is then never closed nor used again), on which
\* process_mentions returns False.
AcquireFlock(i) ==
    /\ i \in procs
    /\ pc[i] = "flock"
    /\ \/ /\ FlockGranted(i)
          /\ holds' = holds \cup {i}
          /\ pc' = [pc EXCEPT ![i] = "load"]
          /\ UNCHANGED <<fd, outcome>>
       \/ /\ ~ FlockGranted(i)
          /\ fd' = [fd EXCEPT ![i] = 0]
          /\ pc' = [pc EXCEPT ![i] = "idle"]
          /\ outcome' = [outcome EXCEPT ![i] = "contended"]
          /\ UNCHANGED holds
    /\ UNCHANGED <<shared, lockPath, locals, fixed>>

\* Mutant: the ledger file is not read, the batch starts from an empty set.
LoadProcessedIds_NotRead(i) ==
    /\ i \in procs
    /\ pc[i] = "load"
    /\ processed_ids' = [processed_ids EXCEPT ![i] = {}]
    /\ pc' = [pc EXCEPT ![i] = "read"]
    /\ UNCHANGED <<shared, lockVars, fixed, outcome, mentions, idx,
                   processed_tweet_ids, explanation, keep, fieldnames, log>>

\* load_processed_ids.
LoadProcessedIds(i) ==
    /\ i \in procs
    /\ pc[i] = "load"
    /\ processed_ids' = [processed_ids EXCEPT ![i] = ledger]
    /\ pc' = [pc EXCEPT ![i] = "read"]
    /\ UNCHANGED <<shared, lockVars, fixed, outcome, mentions, idx,
                   processed_tweet_ids, explanation, keep, fieldnames, log>>

\* Mutant: the early return on an empty batch is outside the try/finally and
\* leaves without release_lock.
GetOldestMentions_NoFinally(i) ==
    /\ i \in procs
    /\ pc[i] = "read"
    /\ LET oldest == get_oldest_mentions(NUM_MENTIONS) IN
         /\ mentions' = [mentions EXCEPT ![i] = oldest]
         /\ IF oldest = <<>>
            THEN /\ outcome' = [outcome EXCEPT ![i] = "empty"]
                 /\ pc' = [pc EXCEPT ![i] = "idle"]
                 /\ UNCHANGED idx
            ELSE /\ idx' = [idx EXCEPT ![i] = 1]
                 /\ pc' = [pc EXCEPT ![i] = "item"]
                 /\ UNCHANGED outcome
    /\ UNCHANGED <<shared, lockVars, fixed, processed_ids,
                   processed_tweet_ids, explanation, keep, fieldnames, log>>

\* get_oldest_mentions(NUM_MENTIONS) and the early return on an empty batch.
GetOldestMentions(i) ==
    /\ i \in procs
    /\ pc[i] = "read"
    /\ LET oldest == get_oldest_mentions(NUM_MENTIONS) IN
         /\ mentions' = [mentions EXCEPT ![i] = oldest]
         /\ IF oldest = <<>>
            THEN /\ outcome' = [outcome EXCEPT ![i] = "empty"]
                 /\ pc' = [pc EXCEPT ![i] = "rel_unlock"]
                 /\ UNCHANGED idx
            ELSE /\ idx' = [idx EXCEPT ![i] = 1]
                 /\ pc' = [pc EXCEPT ![i] = "item"]
                 /\ UNCHANGED outcome
    /\ UNCHANGED <<shared, lockVars, fixed, processed_ids,
                   processed_tweet_ids, explanation, keep, fieldnames, log>>

\* The loop body up to the Discord call: the ledger check, extract_topic
\* (re.sub raises TypeError on a text of None) and generate_explanation,
\* which answers with the explanation or, on any failure, with the apology.
ProcessItem(i) ==
    /\ i \in procs
    /\ pc[i] = "item"
    /\ LET mention == mentions[i][idx[i]] IN
         \/ /\ mention.tweet_id \in processed_ids[i]
            /\ Continue(i, <<"seen", "none">>)
            /\ UNCHANGED <<explanation, outcome>>
         \/ /\ mention.tweet_id \notin processed_ids[i]
            /\ TextIsNone(mention)
            /\ outcome' = [outcome EXCEPT ![i] = "raised"]
            /\ pc' = [pc EXCEPT ![i] = "rel_unlock"]
            /\ UNCHANGED <<idx, log, explanation>>
         \/ /\ mention.tweet_id \notin processed_ids[i]
            /\ ~ TextIsNone(mention)
            /\ extract_topic(mention.text) = <<>>
            /\ Continue(i, <<"notopic", "none">>)
            /\ UNCHANGED <<explanation, outcome>>
         \/ /\ mention.tweet_id \notin processed_ids[i]
            /\ ~ TextIsNone(mention)
            /\ extract_topic(mention.text) # <<>>
            /\ \E text \in {"explanation", "apology"} :
                 explanation' = [explanation EXCEPT ![i] = text]
            /\ pc' = [pc EXCEPT ![i] = "send"]
            /\ UNCHANGED <<idx, log, outcome>>
    /\ UNCHANGED <<shared, lockVars, fixed, processed_ids, mentions,
                   processed_tweet_ids, keep, fieldnames>>

\* discord_client.send_message answers True (status 200 or 204).
SendOk(i) ==
    /\ i \in procs
    /\ pc[i] = "send"
    /\ LET tweet_id == mentions[i][idx[i]].tweet_id IN
         /\ delivered' = delivered \cup {tweet_id}
         /\ processed_tweet_ids' =
              [processed_tweet_ids EXCEPT ![i] = processed_tweet_ids[i] \cup {tweet_id}]
    /\ pc' = [pc EXCEPT ![i] = "save"]
    /\ UNCHANGED <<queue, hdr, ledger, orphans, lockVars, fixed, processed_ids, mentions,
                   idx, explanation, keep, fieldnames, log, outcome>>

\* Mutant: a failed send is booked like a delivery, the final cleanup then
\* removes its line.
SendFail_MarksProcessed(i) ==
    /\ i \in procs
    /\ pc[i] = "send"
    /\ processed_tweet_ids' =
         [processed_tweet_ids EXCEPT ![i] = processed_tweet_ids[i] \cup {mentions[i][idx[i]].tweet_id}]
    /\ pc' = [pc EXCEPT ![i] = IF idx[i] < Len(mentions[i]) THEN "item" ELSE "fin_read"]
    /\ idx' = [idx EXCEPT ![i] = IF idx[i] < Len(mentions[i]) THEN idx[i] + 1 ELSE idx[i]]
    /\ log' = [log EXCEPT ![i] = Append(log[i], <<"failed", explanation[i]>>)]
    /\ UNCHANGED <<shared, lockVars, fixed, processed_ids, mentions,
                   explanation, keep, fieldnames, outcome>>

\* Mutant: the test "if ok" is dropped, a failed send is booked, saved and
\* removed like a delivery.
SendFail_Books(i) ==
    /\ i \in procs
    /\ pc[i] = "send"
    /\ processed_tweet_ids' =
         [processed_tweet_ids EXCEPT ![i] = processed_tweet_ids[i] \cup {mentions[i][idx[i]].tweet_id}]
    /\ pc' = [pc EXCEPT ![i] = "save"]
    /\ UNCHANGED <<shared, lockVars, fixed, processed_ids, mentions, idx,
                   explanation, keep, fieldnames, log, outcome>>

\* discord_client.send_message answers False (another status, an exception).
SendFail(i) ==
    /\ i \in procs
    /\ pc[i] = "send"
    /\ Continue(i, <<"failed", explanation[i]>>)
    /\ UNCHANGED <<shared, lockVars, fixed, processed_ids, mentions,
                   processed_tweet_ids, explanation, keep, fieldnames, outcome>>

\* save_processed_id when the ledger file cannot be written: the except
\* clause logs the error, the id is not appended and the loop body goes on.
SaveProcessedIdFails(i) ==
    /\ i \in procs
    /\ pc[i] = "save"
    /\ pc' = [pc EXCEPT ![i] = "rm_read"]
    /\ UNCHANGED <<shared, lockVars, fixed, locals, outcome>>

\* Mutant: the id is booked in memory only, the ledger file is not written.
SaveProcessedId_NotWritten(i) ==
    /\ i \in procs
    /\ pc[i] = "save"
    /\ pc' = [pc EXCEPT ![i] = "rm_read"]
    /\ UNCHANGED <<shared, lockVars, fixed, locals, outcome>>

\* save_processed_id: appends the id to the ledger file.
SaveProcessedId(i) ==
    /\ i \in procs
    /\ pc[i] = "save"
    /\ ledger' = ledger \cup {mentions[i][idx[i]].tweet_id}
    /\ pc' = [pc EXCEPT ![i] = "rm_read"]
    /\ UNCHANGED <<queue, hdr, delivered, orphans, lockVars, fixed, locals, outcome>>

\* The ids remove_mentions_from_csv is called with: {tweet_id} in the loop,
\* processed_tweet_ids in the final cleanup.
RemoveArg(i) ==
    IF pc[i] = "rm_read" THEN {mentions[i][idx[i]].tweet_id} ELSE processed_tweet_ids[i]

\* Mutant: the test of the filter is inverted, the rows named are kept.
RemoveRead_Inverted(i) ==
    /\ i \in procs
    /\ pc[i] \in {"rm_read", "fin_read"}
    /\ keep' = [keep EXCEPT ![i] = Filter(read_mentions, RowIds(read_mentions) \ RemoveArg(i))]
    /\ fieldnames' = [fieldnames EXCEPT ![i] = hdr]
    /\ pc' = [pc EXCEPT ![i] = IF pc[i] = "rm_read" THEN "rm_trunc" ELSE "fin_trunc"]
    /\ UNCHANGED <<shared, lockVars, fixed, outcome, processed_ids, mentions, idx,
                   processed_tweet_ids, explanation, log>>

\* remove_mentions_from_csv: the return at once on an empty set of ids (the
\* loop never passes one), else the read: the rows to keep, and the header.
RemoveRead(i) ==
    /\ i \in procs
    /\ pc[i] \in {"rm_read", "fin_read"}
    /\ IF RemoveArg(i) = {}
       THEN /\ pc' = [pc EXCEPT ![i] = "ret"]
            /\ UNCHANGED <<keep, fieldnames>>
       ELSE /\ keep' = [keep EXCEPT ![i] = Filter(read_mentions, RemoveArg(i))]
            /\ fieldnames' = [fieldnames EXCEPT ![i] = hdr]
            /\ pc' = [pc EXCEPT ![i] = IF pc[i] = "rm_read" THEN "rm_trunc" ELSE "fin_trunc"]
    /\ UNCHANGED <<shared, lockVars, fixed, outcome, processed_ids, mentions, idx,
                   processed_tweet_ids, explanation, log>>

\* remove_mentions_from_csv, open(MENTIONS_CSV, 'w'): the file is emptied.
RemoveTruncate(i) ==
    /\ i \in procs
    /\ pc[i] \in {"rm_trunc", "fin_trunc"}
    /\ queue' = <<>>
    /\ hdr' = FALSE
    /\ pc' = [pc EXCEPT ![i] = IF pc[i] = "rm_trunc" THEN "rm_write" ELSE "fin_write"]
    /\ UNCHANGED <<ledger, delivered, orphans, lockVars, fixed, locals, outcome>>

\* What is left of a line that was appended to the truncated file when the
\* rewrite then writes from offset 0 over it: nothing, or the end of the line
\* when the rewrite is shorter (a line of unrelated columns, without text).
Remnants(file) ==
    IF file = <<>> THEN {<<>>}
    ELSE {<<>>, <<Row(file[Len(file)].ts, NoId, <<>>, 1)>>}

\* Mutant: the rows are written without writeheader.
RemoveWrite_NoHeader(i) ==
    /\ i \in procs
    /\ pc[i] \in {"rm_write", "fin_write"}
    /\ IF fieldnames[i]
       THEN /\ queue' = WriteRows(keep[i])
            /\ hdr' = FALSE
       ELSE UNCHANGED <<queue, hdr>>
    /\ keep' = [keep EXCEPT ![i] = <<>>]
    /\ IF pc[i] = "rm_write"
       THEN Continue(i, <<"sent", explanation[i]>>)
       ELSE /\ pc' = [pc EXCEPT ![i] = "ret"]
            /\ UNCHANGED <<idx, log>>
    /\ UNCHANGED <<ledger, delivered, orphans, lockVars, fixed, outcome, processed_ids,
                   mentions, processed_tweet_ids, explanation, fieldnames>>

\* remove_mentions_from_csv, writeheader and writerows; with fieldnames None
\* (the file read had no header) writeheader raises and nothing is written.
RemoveWrite(i) ==
    /\ i \in procs
    /\ pc[i] \in {"rm_write", "fin_write"}
    /\ IF fieldnames[i]
       THEN /\ \E rest \in Remnants(queue) : queue' = WriteRows(keep[i]) \o rest
            /\ hdr' = TRUE
       ELSE UNCHANGED <<queue, hdr>>
    /\ keep' = [keep EXCEPT ![i] = <<>>]
    /\ IF pc[i] = "rm_write"
       THEN Continue(i, <<"sent", explanation[i]>>)
       ELSE /\ pc' = [pc EXCEPT ![i] = "ret"]
            /\ UNCHANGED <<idx, log>>
    /\ UNCHANGED <<ledger, delivered, orphans, lockVars, fixed, outcome, processed_ids,
                   mentions, processed_tweet_ids, explanation, fieldnames>>

\* return len(self.read_mentions()) > 0.
ReturnRemaining(i) ==
    /\ i \in procs
    /\ pc[i] = "ret"
    /\ outcome' = [outcome EXCEPT ![i] = IF Len(read_mentions) > 0 THEN "true" ELSE "false"]
    /\ pc' = [pc EXCEPT ![i] = "rel_unlock"]
    /\ UNCHANGED <<shared, lockVars, fixed, locals>>

\* release_lock in the finally clause, fcntl.flock(lock_fd, LOCK_UN); the
\* batch's local variables are not used after it.
ReleaseUnlock(i) ==
    /\ i \in procs
    /\ pc[i] = "rel_unlock"
    /\ holds' = holds \ {i}
    /\ pc' = [pc EXCEPT ![i] = "rel_close"]
    /\ processed_ids' = [processed_ids EXCEPT ![i] = {}]
    /\ mentions' = [mentions EXCEPT ![i] = <<>>]
    /\ idx' = [idx EXCEPT ![i] = 0]
    /\ processed_tweet_ids' = [processed_tweet_ids EXCEPT ![i] = {}]
    /\ explanation' = [explanation EXCEPT ![i] = "none"]
    /\ log' = [log EXCEPT ![i] = <<>>]
    /\ UNCHANGED <<shared, lockPath, fd, fixed, keep, fieldnames, outcome>>

\* release_lock, os.close(lock_fd).
ReleaseClose(i) ==
    /\ i \in procs
    /\ pc[i] = "rel_close"
    /\ fd' = [fd EXCEPT ![i] = 0]
    /\ pc' = [pc EXCEPT ![i] = "rel_unlink"]
    /\ UNCHANGED <<shared, lockPath, holds, fixed, locals, outcome>>

\* release_lock, os.unlink(lock_file_path): removes whatever the path names
\* (FileNotFoundError is logged); process_mentions then returns or raises.
ReleaseUnlink(i) ==
    /\ i \in procs
    /\ pc[i] = "rel_unlink"
    /\ lockPath' = 0
    /\ pc' = [pc EXCEPT ![i] = AfterCall(i)]
    /\ UNCHANGED <<shared, holds, fd, fixed, locals, outcome>>

\* Process i is between save_processed_id, which wrote the id of its item,
\* and the removal of the item's line.
Orphaned(i) ==
    /\ pc[i] \in {"rm_read", "rm_trunc"}
    /\ mentions[i][idx[i]].tweet_id \in ledger
    /\ mentions[i][idx[i]].tweet_id \in RowIds(read_mentions)

\* The process is stopped abruptly inside a call and started again: its
\* memory is gone, the OS closes its descriptors (dropping the flock), the
\* files stay as they are.
Crash(i) ==
    /\ i \in procs
    /\ pc[i] \notin {"idle", "dead"}
    /\ pc' = [pc EXCEPT ![i] = "idle"]
    /\ outcome' = [outcome EXCEPT ![i] = "crashed"]
    /\ holds' = holds \ {i}
    /\ fd' = [fd EXCEPT ![i] = 0]
    /\ processed_ids' = [processed_ids EXCEPT ![i] = {}]
    /\ mentions' = [mentions EXCEPT ![i] = <<>>]
    /\ idx' = [idx EXCEPT ![i] = 0]
    /\ processed_tweet_ids' = [processed_tweet_ids EXCEPT ![i] = {}]
    /\ explanation' = [explanation EXCEPT ![i] = "none"]
    /\ keep' = [keep EXCEPT ![i] = <<>>]
    /\ fieldnames' = [fieldnames EXCEPT ![i] = FALSE]
    /\ log' = [log EXCEPT ![i] = <<>>]
    /\ orphans' = IF Orphaned(i) THEN orphans \cup {mentions[i][idx[i]].tweet_id} ELSE orphans
    /\ UNCHANGED <<queue, hdr, ledger, delivered, lockPath, fixed>>

\* One step of process_mentions in process i, the files being writable.
StepSound(i) ==
    \/ AcquireOpen(i)
    \/ AcquireFlock(i)
    \/ LoadProcessedIds(i)
    \/ GetOldestMentions(i)
    \/ ProcessItem(i)
    \/ SendOk(i)
    \/ SendFail(i)
    \/ SaveProcessedId(i)
    \/ RemoveRead(i)
    \/ RemoveTruncate(i)
    \/ RemoveWrite(i)
    \/ ReturnRemaining(i)
    \/ ReleaseUnlock(i)
    \/ ReleaseClose(i)
    \/ ReleaseUnlink(i)

\* One step of process_mentions in process i.
Step(i) == StepSound(i) \/ SaveProcessedIdFails(i)

Next == \E i \in Inst : Step(i) \/ Crash(i)

\* One pipeline process, as discord_bot_simple and post_replies.main run it.
Init ==
    /\ InitLocals
    /\ InitStore(Queues(MaxQueue, RowShapes))
    /\ lockPath = 0
    /\ procs = {1}
    /\ driver \in {"main", "simple"}

Spec == Init /\ [][Next]_vars

\* One pipeline process whose writes of the ledger file succeed.
NextSound == \E i \in Inst : StepSound(i) \/ Crash(i)

SpecSound == Init /\ [][NextSound]_vars

\* Several pipeline processes started on the same files.
InitMulti ==
    /\ InitLocals
    /\ InitStore(Queues(MaxShared, RowShapes))
    /\ lockPath = 0
    /\ procs = Inst
    /\ driver \in {"main", "simple"}

SpecMulti == InitMulti /\ [][Next]_vars

\* Two or more processes call acquire_lock and nothing else runs: the lock
\* file is absent, or left behind by a process that was killed.
InitAcquire ==
    /\ InitLocals
    /\ InitStore(Queues(MaxShared, RowShapes))
    /\ lockPath \in {0, 1}
    /\ procs = Inst
    /\ driver \in {"main", "simple"}

NextAcquire == \E i \in Inst : AcquireOpen(i) \/ AcquireFlock(i)

SpecAcquire == InitAcquire /\ [][NextAcquire]_vars

\* The driver loop runs batches forever and is never stopped; the queue may
\* be longer than a batch.
FullShapes == {Row(0, id, text, 5) : id \in Ids, text \in Texts}

InitLive ==
    /\ InitLocals
    /\ InitStore(Queues(NUM_MENTIONS + 1, FullShapes))
    /\ lockPath = 0
    /\ procs = {1}
    /\ driver \in {"main", "simple"}

NextLive == \E i \in Inst : Step(i)

\* Every process keeps executing its code, and a Discord call that is made
\* again and again succeeds in the end.
Fairness == \A i \in Inst : WF_vars(Step(i)) /\ SF_vars(SendOk(i))

SpecLive == InitLive /\ [][NextLive]_vars /\ Fairness

\* remove_mentions_from_csv(S) alone, for every queue and every set S of
\* ids: the process is at the call of the final cleanup, mentions holds the
\* lines the file had.
InitRemove ==
    /\ InitStore(Queues(MaxQueue, RowShapes))
    /\ TwitterOff
    /\ ListenerFresh
    /\ BackoffOff
    /\ GenOff
    /\ BootOff
    /\ lockPath = 0
    /\ procs = {1}
    /\ driver = "main"
    /\ pc = [i \in Inst |-> IF i = 1 THEN "fin_read" ELSE "idle"]
    /\ fd = [i \in Inst |-> 0]
    /\ processed_ids = [i \in Inst |-> {}]
    /\ mentions = [i \in Inst |-> IF i = 1 THEN queue ELSE <<>>]
    /\ idx = [i \in Inst |-> IF i = 1 THEN Len(queue) ELSE 0]
    /\ \E S \in SUBSET Ids : processed_tweet_ids = [i \in Inst |-> IF i = 1 THEN S ELSE {}]
    /\ explanation = [i \in Inst |-> "none"]
    /\ keep = [i \in Inst |-> <<>>]
    /\ fieldnames = [i \in Inst |-> FALSE]
    /\ log = [i \in Inst |-> <<>>]
    /\ outcome = [i \in Inst |-> "none"]

NextRemove == \E i \in Inst : RemoveRead(i) \/ RemoveTruncate(i) \/ RemoveWrite(i)

SpecRemove == InitRemove /\ [][NextRemove]_vars

\* Queue files whose lines are in any order of timestamps, equal ones
\* included: datetime.now() is local wall-clock time, which can step back
\* between two appends.
TsShapes == {Row(ts, id, TextTopic, 5) : ts \in 1..MaxQueue, id \in Ids}

RECURSIVE AnyOrderQueues(_)
AnyOrderQueues(n) ==
    IF n = 0 THEN {<<>>}
    ELSE LET shorter == AnyOrderQueues(n - 1) IN
         shorter \cup {Append(f, row) : f \in {g \in shorter : Len(g) = n - 1}, row \in TsShapes}

\* A call get_oldest_mentions(n) for any n; the result is put in mentions
\* and n in idx.
GetOldest(i, n) ==
    /\ i \in procs
    /\ pc[i] = "call"
    /\ mentions' = [mentions EXCEPT ![i] = get_oldest_mentions(n)]
    /\ idx' = [idx EXCEPT ![i] = n]
    /\ pc' = [pc EXCEPT ![i] = "called"]
    /\ UNCHANGED <<shared, lockVars, fixed, outcome, processed_ids,
                   processed_tweet_ids, explanation, keep, fieldnames, log>>

InitOldest ==
    /\ InitStore(AnyOrderQueues(MaxQueue))
    /\ TwitterOff
    /\ ListenerFresh
    /\ BackoffOff
    /\ GenOff
    /\ BootOff
    /\ lockPath = 0
    /\ procs = {1}
    /\ driver = "main"
    /\ pc = [i \in Inst |-> IF i = 1 THEN "call" ELSE "idle"]
    /\ fd = [i \in Inst |-> 0]
    /\ processed_ids = [i \in Inst |-> {}]
    /\ mentions = [i \in Inst |-> <<>>]
    /\ idx = [i \in Inst |-> 0]
    /\ processed_tweet_ids = [i \in Inst |-> {}]
    /\ explanation = [i \in Inst |-> "none"]
    /\ keep = [i \in Inst |-> <<>>]
    /\ fieldnames = [i \in Inst |-> FALSE]
    /\ log = [i \in Inst |-> <<>>]
    /\ outcome = [i \in Inst |-> "none"]

NextOldest == \E i \in Inst : \E n \in 0..(MaxQueue + 1) : GetOldest(i, n)

SpecOldest == InitOldest /\ [][NextOldest]_vars

\* The driver loop runs batches forever on a queue of at most as many lines
\* as there are ids, two of which may carry the same id.
InitRetry ==
    /\ InitLocals
    /\ InitStore(Queues(NumIds, FullShapes))
    /\ lockPath = 0
    /\ procs = {1}
    /\ driver \in {"main", "simple"}

SpecRetry == InitRetry /\ [][NextLive]_vars /\ Fairness

\* One pipeline process on a queue file in any order of timestamps.
InitAnyOrder ==
    /\ InitLocals
    /\ InitStore({f \in AnyOrderQueues(MaxQueue) : InOrder(f)})
    /\ lockPath = 0
    /\ procs = {1}
    /\ driver = "simple"

SpecAnyOrder == InitAnyOrder /\ [][NextLive]_vars

\* ---------------------------------------------------------- listener
\* on_message for a mention of the bot that was not seen before: add_mention
\* appends the line (open 'a') stamped datetime.now(), the id joins
\* processed_messages. The listener runs beside the reply processor (a thread
\* of discord_bot_simple, or the get_discord_mentions process).
OnMessage(id, text) ==
    /\ spos["listener"] = "run"
    /\ id \notin processed_messages
    /\ queue' = Append(queue, Row(Len(seen) + 1, id, text, 5))
    /\ processed_messages' = processed_messages \cup {id}
    /\ seen' = Append(seen, id)
    /\ enqueued' = enqueued \cup {id}
    /\ raced' = IF \E i \in procs : pc[i] \in {"rm_trunc", "rm_write", "fin_trunc", "fin_write"}
                THEN raced \cup {id} ELSE raced
    /\ UNCHANGED <<hdr, ledger, delivered, orphans, lockVars, locals, outcome, pc,
                   procs, driver, gen, boot, exists, spos, http, csv_file, csv_appended, csv_read, twitter, backoff, after, lpc, history>>

\* The listener and one pipeline process on an empty queue file.
InitListener ==
    /\ InitLocals
    /\ InitStore({<<>>})
    /\ lockPath = 0
    /\ procs = {1}
    /\ driver \in {"main", "simple"}

NextListener ==
    \/ \E i \in Inst : Step(i)
    \/ \E id \in Ids, text \in Texts : OnMessage(id, text) /\ UNCHANGED channel

SpecListener == InitListener /\ [][NextListener]_vars

\* One listener run with its periodic history scan (periodic_check_mentions
\* calls check_for_mentions every CHECK_INTERVAL_SECONDS). The channel holds
\* the messages that mention the bot with #eli5; message ids are 1, 2, ...

\* A mention is posted in the channel: the gateway delivers it to on_message,
\* which skips an id it has in processed_messages.
MessageCreated(text) ==
    /\ Len(channel) < NumMsgs
    /\ Len(seen) < MaxAppends
    /\ channel' = Append(channel, text)
    /\ OnMessage(Len(channel) + 1, text)

\* A mention is posted while the listener is not connected to the gateway:
\* no on_message event, the history scan is what finds it.
MessageMissed(text) ==
    /\ Len(channel) < NumMsgs
    /\ channel' = Append(channel, text)
    /\ UNCHANGED <<processed_messages, raced, seen, after, lpc, history>>
    /\ UNCHANGED <<shared, lockVars, locals, outcome, pc, procs, driver, gen, boot, exists, spos, http, csv_file, csv_appended, csv_read, enqueued, twitter, backoff>>

\* check_for_mentions up to the for loop: channel.history(after=after_time,
\* limit=100) gives the oldest messages after after_time; after_time follows
\* the clock, so it never goes back.
HistoryFetch ==
    /\ lpc = "idle"
    /\ \E a \in after..Len(channel) :
         /\ after' = a
         /\ history' = [k \in 1..(IF Len(channel) - a < HistLimit
                                   THEN Len(channel) - a ELSE HistLimit) |-> a + k]
    /\ lpc' = "fetched"
    /\ UNCHANGED <<processed_messages, raced, channel, seen>>
    /\ UNCHANGED <<shared, lockVars, locals, outcome, pc, procs, driver, gen, boot, exists, spos, http, csv_file, csv_appended, csv_read, enqueued, twitter, backoff>>

\* The ids of msgs that are not in the set S, in the order of msgs.
RECURSIVE Unseen(_, _)
Unseen(msgs, S) ==
    IF msgs = <<>> THEN <<>>
    ELSE IF Head(msgs) \in S THEN Unseen(Tail(msgs), S)
         ELSE <<Head(msgs)>> \o Unseen(Tail(msgs), S \cup {Head(msgs)})

\* The trim at the end of check_for_mentions. The iteration order of a set
\* of str is their hash order (randomised per process), not the order they
\* were added in: the ids kept are any SeenKeep of the set.
Trim(S) ==
    IF Cardinality(S) > SeenCap
    THEN {T \in SUBSET S : Cardinality(T) = SeenKeep}
    ELSE {S}

\* The for loop of check_for_mentions and the trim after it: add_mention for
\* each collected message whose id is not in processed_messages.
HistoryProcess ==
    /\ lpc = "fetched"
    /\ LET new == Unseen(history, processed_messages)
       IN  /\ Len(seen) + Len(new) <= MaxAppends
           /\ queue' = queue \o [k \in 1..Len(new) |->
                                  Row(Len(seen) + k, new[k], channel[new[k]], 5)]
           /\ seen' = seen \o new
           /\ enqueued' = enqueued \cup {new[k] : k \in 1..Len(new)}
           /\ raced' = IF \E i \in procs : pc[i] \in {"rm_trunc", "rm_write", "fin_trunc", "fin_write"}
                       THEN raced \cup {new[k] : k \in 1..Len(new)} ELSE raced
           /\ processed_messages' \in Trim(processed_messages \cup {new[k] : k \in 1..Len(new)})
    /\ lpc' = "idle"
    /\ history' = <<>>
    /\ UNCHANGED <<channel, after>>
    /\ UNCHANGED <<hdr, ledger, delivered, orphans, lockVars, locals, outcome, pc,
                   procs, driver, gen, boot, exists, spos, http, csv_file, csv_appended, csv_read, twitter, backoff>>

InitScan ==
    /\ InitLocals
    /\ InitStore({<<>>})
    /\ lockPath = 0
    /\ procs = {}
    /\ driver = "simple"

NextScan ==
    \/ \E text \in Texts : MessageCreated(text)
    \/ \E text \in Texts : MessageMissed(text)
    \/ HistoryFetch
    \/ HistoryProcess

SpecScan == InitScan /\ [][NextScan]_vars

\* ------------------------------------------------------- Twitter bot
POLL_INTERVAL == 960
buffer == 30
default_wait == 960

\* The TooManyRequests exceptions tweepy raises: without a response object,
\* with a response that has no x-rate-limit-reset header, with one whose
\* header int() cannot parse (junk), or with a header that parses
\* (has_reset); delta is its value minus time.time().
RateLimitSignals ==
    {[response |-> FALSE, junk |-> FALSE, has_reset |-> FALSE, delta |-> 0],
     [response |-> TRUE, junk |-> FALSE, has_reset |-> FALSE, delta |-> 0],
     [response |-> TRUE, junk |-> TRUE, has_reset |-> FALSE, delta |-> 0]}
      \cup {[response |-> TRUE, junk |-> FALSE, has_reset |-> TRUE, delta |-> d] :
                d \in {0 - 60, 0, 45, 120}}

\* RateLimitHandler.get_seconds_until_reset.
get_seconds_until_reset(exception) ==
    IF exception.has_reset
    THEN (IF exception.delta > 0 THEN exception.delta ELSE 0)
    ELSE default_wait

\* The except Exception clause of process_mentions: the error is logged and
\* not raised again, whatever exception it is.
Propagates(exception) == <<>>

RECURSIVE IdsAfter(_, _)
IdsAfter(since_id, last) ==
    IF last <= since_id THEN <<>> ELSE Append(IdsAfter(since_id, last - 1), last)

\* get_users_mentions with since_id: the mentions after it, here oldest
\* first (ELI5Bot walks reversed(mentions), MentionsBot takes the maximum).
get_mentions_IgnoreSince(since_id) == IdsAfter(0, Len(timeline))

get_mentions(since_id) == IdsAfter(since_id, Len(timeline))

\* A user mentions the account, with or without a subject after the handle.
TwNewMention ==
    /\ tpc # "off" \/ mpc \notin {"off", "lib"}
    /\ Len(timeline) < MaxTweets
    /\ \E subject \in BOOLEAN : timeline' = Append(timeline, subject)
    /\ UNCHANGED <<cursor, replied, tpc, tmentions, tidx, tlimit, texc, twait>>
    /\ UNCHANGED <<shared, lockVars, locals, outcome, pc, procs, driver, gen, boot, exists, spos, http, csv_file, csv_appended, csv_read, enqueued, listener, backoff>>

\* process_mentions up to the for loop: get_last_seen_id and get_mentions,
\* which returns the mentions after since_id, returns [] on an error, or
\* raises TooManyRequests again.
TwGetMentions ==
    /\ tpc = "run"
    /\ tlimit' = <<>>
    /\ \/ /\ tmentions' = get_mentions(cursor)
          /\ tidx' = IF tmentions' = <<>> THEN 0 ELSE 1
          /\ tpc' = IF tmentions' = <<>> THEN "returned" ELSE "tweet"
          /\ UNCHANGED texc
       \/ /\ tmentions' = <<>>
          /\ tidx' = 0
          /\ tpc' = "returned"
          /\ UNCHANGED texc
       \/ \E e \in RateLimitSignals :
            /\ tlimit' = <<e>>
            /\ texc' = Propagates(e)
            /\ tpc' = "returned"
            /\ UNCHANGED <<tmentions, tidx>>
    /\ UNCHANGED <<timeline, cursor, replied, twait>>
    /\ UNCHANGED <<shared, lockVars, locals, outcome, pc, procs, driver, gen, boot, exists, spos, http, csv_file, csv_appended, csv_read, enqueued, listener, backoff>>

\* The for loop after the reply step of a tweet: set_last_seen_id(tweet.id)
\* and the next tweet, or the end of process_mentions.
TwAdvance ==
    /\ cursor' = tmentions[tidx]
    /\ tidx' = IF tidx < Len(tmentions) THEN tidx + 1 ELSE 0
    /\ tpc' = IF tidx < Len(tmentions) THEN "tweet" ELSE "returned"

\* The loop body of a tweet: extract_keyword; without a subject only the
\* cursor moves, with one generate_eli5_response and log_interaction (neither
\* raises) lead to post_reply.
TwProcessTweet ==
    /\ tpc = "tweet"
    /\ IF timeline[tmentions[tidx]]
       THEN /\ tpc' = "post"
            /\ UNCHANGED <<cursor, tidx>>
       ELSE TwAdvance
    /\ UNCHANGED <<timeline, replied, tmentions, tlimit, texc, twait>>
    /\ UNCHANGED <<shared, lockVars, locals, outcome, pc, procs, driver, gen, boot, exists, spos, http, csv_file, csv_appended, csv_read, enqueued, listener, backoff>>

\* post_reply: the reply is posted, or an error is logged and None returned
\* (the caller does not look at the result), or TooManyRequests is raised
\* again and ends the loop.
TwPostReply ==
    /\ tpc = "post"
    /\ \/ /\ replied' = replied \cup {tmentions[tidx]}
          /\ TwAdvance
          /\ UNCHANGED <<tlimit, texc>>
       \/ /\ TwAdvance
          /\ UNCHANGED <<replied, tlimit, texc>>
       \/ \E e \in RateLimitSignals :
            /\ tlimit' = <<e>>
            /\ texc' = Propagates(e)
            /\ tpc' = "returned"
            /\ UNCHANGED <<replied, cursor, tidx>>
    /\ UNCHANGED <<timeline, tmentions, twait>>
    /\ UNCHANGED <<shared, lockVars, locals, outcome, pc, procs, driver, gen, boot, exists, spos, http, csv_file, csv_appended, csv_read, enqueued, listener, backoff>>

\* ELI5Bot.run after process_mentions: the poll interval on a return, the
\* seconds until the reset plus the buffer on a TooManyRequests.
TwRunWait ==
    /\ tpc = "returned"
    /\ twait' = IF texc = <<>> THEN POLL_INTERVAL
                ELSE get_seconds_until_reset(texc[1]) + buffer
    /\ texc' = <<>>
    /\ tpc' = "sleep"
    /\ UNCHANGED <<timeline, cursor, replied, tmentions, tidx, tlimit>>
    /\ UNCHANGED <<shared, lockVars, locals, outcome, pc, procs, driver, gen, boot, exists, spos, http, csv_file, csv_appended, csv_read, enqueued, listener, backoff>>

\* The sleep is over, the while loop starts the next cycle.
TwWake ==
    /\ tpc = "sleep"
    /\ tpc' = "run"
    /\ twait' = 0
    /\ UNCHANGED <<timeline, cursor, replied, tmentions, tidx, tlimit, texc>>
    /\ UNCHANGED <<shared, lockVars, locals, outcome, pc, procs, driver, gen, boot, exists, spos, http, csv_file, csv_appended, csv_read, enqueued, listener, backoff>>

InitTwitter ==
    /\ InitPipeline
    /\ ListenerFresh
    /\ BackoffOff
    /\ GenOff
    /\ BootOff
    /\ InitStore({<<>>})
    /\ lockPath = 0
    /\ procs = {}
    /\ driver = "main"
    /\ timeline = <<>>
    /\ cursor = 0
    /\ replied = {}
    /\ tpc = "run"
    /\ tmentions = <<>>
    /\ tidx = 0
    /\ tlimit = <<>>
    /\ texc = <<>>
    /\ twait = 0

NextTwitter ==
    \/ TwNewMention
    \/ TwGetMentions
    \/ TwProcessTweet
    \/ TwPostReply
    \/ TwRunWait
    \/ TwWake

SpecTwitter == InitTwitter /\ [][NextTwitter]_vars

\* ---------------------------------------------------- rate limit waits
SLICE == 30
WAIT_BUFFER == 30
safety_buffer == 30
buffer_default == 60
reset_default == 900

\* RateLimitChecker.get_rate_limit_from_exception, the 'reset_in_seconds' of
\* its result: <<>> is None (extract_rate_limit_info found no header it
\* could parse).
get_rate_limit_from_exception(exception) ==
    IF exception.response
    THEN (IF exception.has_reset
          THEN <<IF exception.delta > 0 THEN exception.delta ELSE 0>>
          ELSE <<>>)
    ELSE <<reset_default>>

\* ratelimit.get_wait_time_from_exception. The key 'reset_in_seconds' is
\* always in the dict, so .get never gives its default; None > 0 raises
\* TypeError.
get_wait_time_from_exception(exception) ==
    LET seconds == get_rate_limit_from_exception(exception)
    IN  IF seconds = <<>>
        THEN [raised |-> TRUE, seconds |-> 0]
        ELSE [raised |-> FALSE,
              seconds |-> IF seconds[1] > 0 THEN seconds[1] + safety_buffer
                          ELSE seconds[1]]

\* The start of a wait loop: sleep_left = total_seconds.
StartWait(total_seconds) ==
    /\ wtotal' = total_seconds
    /\ sleep_left' = total_seconds
    /\ slices' = <<>>
    /\ logged' = 0

WaitingAt == {"prewait", "backoff", "lib_wait"}

WaitSlice_WholeSlice ==
    /\ mpc \in WaitingAt
    /\ sleep_left > 0
    /\ logged' = logged + 1
    /\ slices' = Append(slices, SLICE)
    /\ sleep_left' = sleep_left - SLICE
    /\ UNCHANGED <<mpc, wsignal, wresult, wtotal>>
    /\ UNCHANGED <<shared, lockVars, locals, outcome, pc, procs, driver, gen, boot, exists, spos, http, csv_file, csv_appended, csv_read, enqueued,
                   twitter, listener>>

\* One turn of the wait loop (wait_for_reset of ratelimit.py and main.py, the
\* loops of fetch_mentions): a progress message, time.sleep(min(30,
\* sleep_left)), sleep_left less what was slept.
WaitSlice ==
    /\ mpc \in WaitingAt
    /\ sleep_left > 0
    /\ LET interval == IF sleep_left < SLICE THEN sleep_left ELSE SLICE
       IN  /\ logged' = logged + 1
           /\ slices' = Append(slices, interval)
           /\ sleep_left' = sleep_left - interval
    /\ UNCHANGED <<mpc, wsignal, wresult, wtotal>>
    /\ UNCHANGED <<shared, lockVars, locals, outcome, pc, procs, driver, gen, boot, exists, spos, http, csv_file, csv_appended, csv_read, enqueued,
                   twitter, listener>>

\* The while condition is false: the code after the loop goes on.
WaitDone ==
    /\ mpc \in WaitingAt
    /\ sleep_left <= 0
    /\ mpc' = CASE mpc = "prewait" -> "get"
                [] mpc = "backoff" -> "done"
                [] mpc = "lib_wait" -> "lib"
    /\ UNCHANGED <<wsignal, wresult, wtotal, sleep_left, slices, logged>>
    /\ UNCHANGED <<shared, lockVars, locals, outcome, pc, procs, driver, gen, boot, exists, spos, http, csv_file, csv_appended, csv_read, enqueued,
                   twitter, listener>>

\* ------------------------------------------------------- MentionsBot
\* What TwitterClient.check_rate_limit reports as reset_in_seconds when the
\* endpoint is rate limited.
ResetIns == {20, 45}

\* fetch_mentions up to the try: get_last_seen_id, check_rate_limit and, when
\* rate limited, the wait of reset_in_seconds + WAIT_BUFFER.
FetchCheckRateLimit ==
    /\ mpc = "start"
    /\ \/ /\ mpc' = "get"
          /\ UNCHANGED <<wtotal, sleep_left, slices, logged>>
       \/ \E reset_in_seconds \in ResetIns :
            /\ StartWait(reset_in_seconds + WAIT_BUFFER)
            /\ mpc' = "prewait"
    /\ UNCHANGED <<wsignal, wresult>>
    /\ UNCHANGED <<shared, lockVars, locals, outcome, pc, procs, driver, gen, boot, exists, spos, http, csv_file, csv_appended, csv_read, enqueued,
                   twitter, listener>>

\* MentionsLogger.log_mentions in a process that has just loaded
\* seen_tweet_ids from the file: one row, stamped with the same now(), for
\* each mention whose id is not in the file.
log_mentions(ids) ==
    LET new == Unseen(ids, RowIds(queue))
    IN  queue \o [k \in 1..Len(new) |->
                    Row(Len(queue) + 1, new[k],
                        IF timeline[new[k]] THEN TextTopic ELSE TextBlank, 5)]

\* The try of fetch_mentions: get_mentions, log_mentions (which writes the
\* rows, or catches the error of a file it cannot write and returns 0) and
\* set_last_seen_id(max id); or no mentions (an error in get_mentions gives
\* [] too); or TooManyRequests, for which get_mentions and then the except
\* clause call get_wait_time_from_exception: its TypeError ends up in
\* except Exception, otherwise the wait loop starts.
FetchGet ==
    /\ mpc = "get"
    /\ \/ /\ get_mentions(cursor) # <<>>
          /\ \E written \in BOOLEAN :
               queue' = IF written THEN log_mentions(get_mentions(cursor)) ELSE queue
          /\ cursor' = get_mentions(cursor)[Len(get_mentions(cursor))]
          /\ mpc' = "done"
          /\ UNCHANGED <<wsignal, wresult, wtotal, sleep_left, slices, logged>>
       \/ /\ mpc' = "done"
          /\ UNCHANGED <<queue, cursor, wsignal, wresult, wtotal, sleep_left, slices, logged>>
       \/ \E e \in RateLimitSignals :
            /\ wsignal' = <<e>>
            /\ wresult' = <<get_wait_time_from_exception(e)>>
            /\ IF get_wait_time_from_exception(e).raised
               THEN /\ mpc' = "done"
                    /\ UNCHANGED <<wtotal, sleep_left, slices, logged>>
               ELSE /\ mpc' = "backoff"
                    /\ StartWait(get_wait_time_from_exception(e).seconds + WAIT_BUFFER)
            /\ UNCHANGED <<queue, cursor>>
    /\ UNCHANGED <<timeline, replied, tpc, tmentions, tidx, tlimit, texc, twait>>
    /\ UNCHANGED <<hdr, ledger, delivered, orphans, lockVars, locals, outcome, pc,
                   procs, driver, gen, boot, exists, spos, http, csv_file, csv_appended, csv_read, enqueued, listener>>

\* main of main2.py is run again (it fetches once per run).
FetchMain ==
    /\ mpc = "done"
    /\ mpc' = "start"
    /\ wsignal' = <<>>
    /\ wresult' = <<>>
    /\ wtotal' = 0
    /\ sleep_left' = 0
    /\ slices' = <<>>
    /\ logged' = 0
    /\ UNCHANGED <<shared, lockVars, locals, outcome, pc, procs, driver, gen, boot, exists, spos, http, csv_file, csv_appended, csv_read, enqueued,
                   twitter, listener>>

NextFetch ==
    \/ TwNewMention
    \/ FetchCheckRateLimit
    \/ FetchGet
    \/ FetchMain
    \/ WaitSlice
    \/ WaitDone

\* ------------------------------------------- the rate limit helpers
\* The seconds_left a caller hands to wait_for_reset.
SecondsLeft == {0 - 90, 0 - 60, 0 - 31, 0 - 30, 0 - 1, 0, 1, 29, 30, 31, 45, 60, 120}

\* RateLimitHandler.get_seconds_until_reset(e) is called.
LibGetSecondsUntilReset(e) ==
    /\ mpc = "lib"
    /\ wsignal' = <<e>>
    /\ wresult' = <<[raised |-> FALSE, seconds |-> get_seconds_until_reset(e)]>>
    /\ UNCHANGED <<mpc, wtotal, sleep_left, slices, logged>>
    /\ UNCHANGED <<shared, lockVars, locals, outcome, pc, procs, driver, gen, boot, exists, spos, http, csv_file, csv_appended, csv_read, enqueued,
                   twitter, listener>>

\* ratelimit.get_wait_time_from_exception(e) is called.
LibGetWaitTime(e) ==
    /\ mpc = "lib"
    /\ wsignal' = <<e>>
    /\ wresult' = <<get_wait_time_from_exception(e)>>
    /\ UNCHANGED <<mpc, wtotal, sleep_left, slices, logged>>
    /\ UNCHANGED <<shared, lockVars, locals, outcome, pc, procs, driver, gen, boot, exists, spos, http, csv_file, csv_appended, csv_read, enqueued,
                   twitter, listener>>

\* ratelimit.handle_rate_limit_exception(e, wait=True): the wait time, then
\* RateLimitChecker.wait_for_reset(seconds_to_wait) with its default buffer.
LibHandleRateLimit(e) ==
    /\ mpc = "lib"
    /\ wsignal' = <<e>>
    /\ wresult' = <<get_wait_time_from_exception(e)>>
    /\ IF get_wait_time_from_exception(e).raised
       THEN UNCHANGED <<mpc, wtotal, sleep_left, slices, logged>>
       ELSE /\ mpc' = "lib_wait"
            /\ StartWait(get_wait_time_from_exception(e).seconds + buffer_default)
    /\ UNCHANGED <<shared, lockVars, locals, outcome, pc, procs, driver, gen, boot, exists, spos, http, csv_file, csv_appended, csv_read, enqueued,
                   twitter, listener>>

\* RateLimitHandler.wait_for_reset(seconds_left) of main.py (buffer = 30) or
\* RateLimitChecker.wait_for_reset(seconds_left) of ratelimit.py (buffer=60).
LibWaitForReset(seconds_left) ==
    /\ mpc = "lib"
    /\ \E b \in {buffer, buffer_default} : StartWait(seconds_left + b)
    /\ mpc' = "lib_wait"
    /\ wsignal' = <<>>
    /\ wresult' = <<>>
    /\ UNCHANGED <<shared, lockVars, locals, outcome, pc, procs, driver, gen, boot, exists, spos, http, csv_file, csv_appended, csv_read, enqueued,
                   twitter, listener>>

NextLib ==
    \/ \E e \in RateLimitSignals : LibGetSecondsUntilReset(e)
    \/ \E e \in RateLimitSignals : LibGetWaitTime(e)
    \/ \E e \in RateLimitSignals : LibHandleRateLimit(e)
    \/ \E seconds_left \in SecondsLeft : LibWaitForReset(seconds_left)

\* One of the three programs runs: ELI5Bot (main.py), MentionsBot (main2.py)
\* or a caller of the rate limit helpers.
InitBots ==
    /\ InitPipeline
    /\ ListenerFresh
    /\ GenOff
    /\ BootOff
    /\ InitStore({<<>>})
    /\ lockPath = 0
    /\ procs = {}
    /\ driver = "main"
    /\ timeline = <<>>
    /\ cursor = 0
    /\ replied = {}
    /\ tmentions = <<>>
    /\ tidx = 0
    /\ tlimit = <<>>
    /\ texc = <<>>
    /\ twait = 0
    /\ wsignal = <<>>
    /\ wresult = <<>>
    /\ wtotal = 0
    /\ sleep_left = 0
    /\ slices = <<>>
    /\ logged = 0
    /\ \/ tpc = "run" /\ mpc = "off"
       \/ tpc = "off" /\ mpc \in {"start", "lib"}

NextBots == NextTwitter \/ NextFetch \/ NextLib

SpecBots == InitBots /\ [][NextBots]_vars

\* The wait loops are not held up for ever.
SpecBotsFair == SpecBots /\ WF_vars(WaitSlice) /\ WF_vars(WaitDone)

\* -------------------------------------------------------- generation
\* Here a text is the sequence of its characters.
Marker == <<"#", "E", "L", "I", "5">>

\* What a strategy can produce: up to MaxRaw pieces, each a letter, a blank
\* or the marker.
RECURSIVE RawTexts(_)
RawTexts(n) ==
    IF n = 0 THEN {<<>>}
    ELSE RawTexts(n - 1)
           \cup {t \o piece : t \in RawTexts(n - 1), piece \in {<<"x">>, <<" ">>, Marker}}

Subjects == {<<"c", "a", "t">>, <<"s", "k", "y">>}

\* sub in text
Contains(text, sub) ==
    \E k \in 1..(Len(text) - Len(sub) + 1) : SubSeq(text, k, k + Len(sub) - 1) = sub

\* text[:n]
Prefix(text, n) == SubSeq(text, 1, IF n < Len(text) THEN n ELSE Len(text))

\* LLMClient._format_for_twitter of main.py.
format_for_twitter(text) ==
    LET marked ==
          IF ~ Contains(text, Marker)
          THEN (IF Len(text) + 6 <= MAX_TWEET_LENGTH
                THEN RStrip(text, {" "}) \o <<" ">> \o Marker
                ELSE RStrip(Prefix(text, MAX_TWEET_LENGTH - 6), {" "})
                       \o <<" ">> \o Marker)
          ELSE text
    IN  IF Len(marked) > MAX_TWEET_LENGTH
        THEN RStrip(Prefix(marked, MAX_TWEET_LENGTH - 3), {" "}) \o <<"...", " ">> \o Marker
        ELSE marked

\* LLMClient._format_response of app.py, max_length not given.
format_response(text) ==
    LET marked ==
          IF ~ Contains(text, Marker)
          THEN (IF Len(text) + 6 <= MAX_RESPONSE_LENGTH
                THEN RStrip(text, {" "}) \o <<" ">> \o Marker
                ELSE RStrip(Prefix(text, MAX_RESPONSE_LENGTH - 6), {" "})
                       \o <<" ">> \o Marker)
          ELSE text
    IN  IF Len(marked) > MAX_RESPONSE_LENGTH
        THEN RStrip(Prefix(marked, MAX_RESPONSE_LENGTH - 3), {" "}) \o <<"...", " ">> \o Marker
        ELSE marked

\* f"Sorry, I couldn't explain '{subject}' right now. Try again later! #ELI5"
ApologyLater(subject) ==
    <<"S", "o", "r", "r", "y", " ", "'">> \o subject \o <<"'", " ", "l", "a", "t", "e", "r", "!", " ">>
      \o Marker

\* f"Sorry, I couldn't explain '{topic}' right now. #ELI5"
ApologyNow(topic) ==
    <<"S", "o", "r", "r", "y", " ", "'">> \o topic \o <<"'", " ", "n", "o", "w", ".", " ">> \o Marker

\* What the strategies of a call do: openai and local say whether
\* _generate_with_openai and _generate_with_local_model get a text from
\* their model (they raise otherwise), raw is that text.
Strategies == [openai : BOOLEAN, local : BOOLEAN, raw : RawTexts(MaxRaw)]

generate_eli5_response_NoApology(subject, has_openai_key, use_local_model_fallback, did) ==
    IF has_openai_key /\ did.openai
    THEN format_for_twitter(LStrip(RStrip(did.raw, {" "}), {" "}))
    ELSE IF use_local_model_fallback /\ did.local
         THEN format_for_twitter(did.raw)
         ELSE <<>>

\* LLMClient.generate_eli5_response of main.py: OpenAI when there is a key,
\* the local model when the fallback is on, the apology when neither gives
\* a text.
generate_eli5_response(subject, has_openai_key, use_local_model_fallback, did) ==
    IF has_openai_key /\ did.openai
    THEN format_for_twitter(LStrip(RStrip(did.raw, {" "}), {" "}))
    ELSE IF has_openai_key /\ ~ use_local_model_fallback
         THEN ApologyLater(subject)
         ELSE IF use_local_model_fallback
              THEN (IF did.local THEN format_for_twitter(did.raw)
                    ELSE ApologyLater(subject))
              ELSE ApologyLater(subject)

\* LLMClient.generate_eli5_response of app.py: the same order, the result
\* kept in explanation and returned after the MLflow logging (which catches
\* its own errors).
app_generate_eli5_response(subject, has_openai_key, use_local_model_fallback, did) ==
    LET first == IF has_openai_key
                 THEN (IF did.openai
                       THEN [success |-> TRUE,
                             explanation |-> format_response(LStrip(RStrip(did.raw, {" "}), {" "}))]
                       ELSE [success |-> FALSE,
                             explanation |-> IF ~ use_local_model_fallback
                                             THEN ApologyLater(subject) ELSE <<>>])
                 ELSE [success |-> FALSE, explanation |-> <<>>]
        second == IF ~ first.success /\ use_local_model_fallback
                  THEN (IF did.local
                        THEN [success |-> TRUE, explanation |-> format_response(did.raw)]
                        ELSE [success |-> FALSE, explanation |-> ApologyLater(subject)])
                  ELSE first
    IN  IF ~ second.success THEN ApologyLater(subject) ELSE second.explanation

\* What requests.post to the ELI5 API comes to: a timeout or another
\* exception, a status other than 200, or 200 with a JSON body that has an
\* 'explanation' or has none (a body that is no JSON raises in .json()).
Replies ==
    {[kind |-> "raises", body |-> <<>>], [kind |-> "status500", body |-> <<>>],
     [kind |-> "badjson", body |-> <<>>], [kind |-> "nokey", body |-> <<>>]}
      \cup {[kind |-> "ok", body |-> t] : t \in RawTexts(MaxRaw)}

\* ELI5Generator.generate_explanation of post_replies.py.
generate_explanation(topic, reply) ==
    IF reply.kind = "ok" THEN reply.body ELSE ApologyNow(topic)

\* A call of generate_eli5_response of main.py or app.py (calls do not
\* depend on one another: a behaviour has one).
GenerateEli5Response ==
    /\ gcall = <<>>
    /\ \E program \in {"main", "app"}, subject \in Subjects, has_openai_key \in BOOLEAN,
       use_local_model_fallback \in BOOLEAN, did \in Strategies :
        /\ gcall' = <<[program |-> program, subject |-> subject,
                       failed |-> ~ ((has_openai_key /\ did.openai)
                                       \/ (use_local_model_fallback /\ did.local)),
                       raw |-> did.raw]>>
        /\ gresponse' =
             IF program = "main"
             THEN generate_eli5_response(subject, has_openai_key, use_local_model_fallback, did)
             ELSE app_generate_eli5_response(subject, has_openai_key,
                                             use_local_model_fallback, did)
        /\ UNCHANGED <<shared, lockVars, locals, outcome, pc, procs, driver, enqueued,
                       twitter, listener, backoff, boot,
                       exists, spos, http, csv_file, csv_appended, csv_read>>

\* A call of generate_explanation of post_replies.py.
GenerateExplanation ==
    /\ gcall = <<>>
    /\ \E topic \in Subjects, reply \in Replies :
        /\ gcall' = <<[program |-> "post_replies", subject |-> topic,
                       failed |-> reply.kind \in {"raises", "status500", "badjson"},
                       raw |-> reply.body]>>
        /\ gresponse' = generate_explanation(topic, reply)
        /\ UNCHANGED <<shared, lockVars, locals, outcome, pc, procs, driver, enqueued,
                       twitter, listener, backoff, boot,
                       exists, spos, http, csv_file, csv_appended, csv_read>>

\* The /explain handler of app.py. ExplainRequest (min_length=1) turns an
\* empty subject down with 422 before the handler runs. In the handler the
\* HTTPException(400) of the validation is raised inside the try, and
\* "except Exception" catches it like any other exception and raises
\* HTTPException(500). generate_eli5_response and the dataset logging do not
\* raise.
explain(subject) ==
    IF Len(subject) < 1
    THEN [status |-> 422, detail |-> "validation error", generates |-> FALSE]
    ELSE LET try == IF LStrip(RStrip(subject, {" "}), {" "}) = <<>>
                    THEN [raised |-> TRUE, status |-> 400,
                          detail |-> "Subject cannot be empty", generates |-> FALSE]
                    ELSE [raised |-> FALSE, status |-> 200,
                          detail |-> "", generates |-> TRUE]
         IN  IF try.raised
             THEN [status |-> 500, detail |-> "An internal server error occurred",
                   generates |-> try.generates]
             ELSE [status |-> try.status, detail |-> try.detail, generates |-> try.generates]

\* A POST /explain with a subject that has letters, only blanks or nothing.
Explain ==
    /\ gcall = <<>>
    /\ http = <<>>
    /\ \E subject \in Subjects \cup {<<>>, <<" ">>, <<" ", " ">>}, has_openai_key \in BOOLEAN,
          use_local_model_fallback \in BOOLEAN, did \in Strategies :
        /\ http' = <<[subject |-> subject, status |-> explain(subject).status,
                      detail |-> explain(subject).detail]>>
        /\ IF explain(subject).generates
           THEN /\ gcall' = <<[program |-> "app", subject |-> subject,
                               failed |-> ~ ((has_openai_key /\ did.openai)
                                               \/ (use_local_model_fallback /\ did.local)),
                               raw |-> did.raw]>>
                /\ gresponse' = app_generate_eli5_response(subject, has_openai_key,
                                                           use_local_model_fallback, did)
           ELSE UNCHANGED <<gcall, gresponse>>
    /\ UNCHANGED <<shared, lockVars, locals, outcome, pc, procs, driver, enqueued,
                   twitter, listener, backoff, boot,
                   exists, spos, csv_file, csv_appended, csv_read>>

InitGenerate ==
    /\ InitLocals
    /\ InitStore({<<>>})
    /\ lockPath = 0
    /\ procs = {}
    /\ driver = "main"

NextGenerate == GenerateEli5Response \/ GenerateExplanation \/ Explain

SpecGenerate == InitGenerate /\ [][NextGenerate]_vars

\* ---------------------------------------------------------- start-up
\* The environment variables the start-up checks look at.
EnvNames ==
    {"TWITTER_USER_ID", "TWITTER_ACCOUNT_HANDLE", "OPENAI_API_KEY", "TWITTER_API_KEY",
     "TWITTER_API_SECRET", "TWITTER_ACCESS_TOKEN", "TWITTER_ACCESS_TOKEN_SECRET",
     "DISCORD_BOT_TOKEN", "DISCORD_CHANNEL_ID", "DISCORD_SERVER_ID", "TARGET_USER_ID"}

\* What each program requires: ELI5Bot._validate_config (main.py; the local
\* model fallback stands in for a missing OPENAI_API_KEY),
\* MentionsBot._validate_config (main2.py), Config.__init__
\* (get_discord_mentions.py).
Required(program, use_local_model_fallback) ==
    CASE program = "main" ->
           {"TWITTER_USER_ID", "TWITTER_ACCOUNT_HANDLE"}
             \cup (IF use_local_model_fallback THEN {} ELSE {"OPENAI_API_KEY"})
      [] program = "main2" ->
           {"TWITTER_USER_ID", "TWITTER_API_KEY", "TWITTER_API_SECRET",
            "TWITTER_ACCESS_TOKEN", "TWITTER_ACCESS_TOKEN_SECRET"}
      [] program = "get_discord_mentions" ->
           {"DISCORD_BOT_TOKEN", "DISCORD_CHANNEL_ID", "DISCORD_SERVER_ID", "TARGET_USER_ID"}

\* The entry point of main.py, main2.py or get_discord_mentions.py is run
\* with the variables of env set. A ValueError of the start-up checks is
\* caught by the except Exception of the entry point, which logs it; the
\* script then ends like any script that reached its last line, status 0.
RunEntryPoint(program, env, use_local_model_fallback) ==
    /\ started = <<>>
    /\ IF Required(program, use_local_model_fallback) \subseteq env
       THEN /\ started' = <<[program |-> program, env |-> env, phase |-> "running"]>>
            /\ UNCHANGED exit_code
       ELSE /\ started' = <<[program |-> program, env |-> env, phase |-> "fatal"]>>
            /\ exit_code' = <<0>>
    /\ UNCHANGED webhook
    /\ UNCHANGED <<shared, lockVars, locals, outcome, pc, procs, driver, enqueued,
                   twitter, listener, backoff, gen,
                   exists, spos, http, csv_file, csv_appended, csv_read>>

\* Ctrl-C: except KeyboardInterrupt logs "stopped by user", status 0.
KeyboardInterrupt ==
    /\ started # <<>>
    /\ started[1].phase = "running"
    /\ started' = <<[started[1] EXCEPT !.phase = "stopped"]>>
    /\ exit_code' = <<0>>
    /\ UNCHANGED webhook
    /\ UNCHANGED <<shared, lockVars, locals, outcome, pc, procs, driver, enqueued,
                   twitter, listener, backoff, gen,
                   exists, spos, http, csv_file, csv_appended, csv_read>>

\* DISCORD_WEBHOOK_URL in the environment: not set, a URL, or a reference
\* to a key of the secret ("ref"). The secret: whether get_secret_value
\* answers (up), and the keys it has.
WebhookEnvs == {"absent", "url", "ref"}
SecretStores == [up : BOOLEAN, keys : SUBSET {"ref_key", "DISCORD_WEBHOOK_URL"}]

\* Config._get_discord_webhook_url of post_replies.py: where the URL it
\* returns comes from.
get_discord_webhook_url(webhook_env, store) ==
    IF webhook_env = "url" THEN "environment"
    ELSE IF webhook_env = "ref" /\ store.up /\ "ref_key" \in store.keys THEN "secret"
    ELSE IF store.up /\ "DISCORD_WEBHOOK_URL" \in store.keys THEN "secret"
    ELSE "hardcoded"

\* main of post_replies.py up to its loop: Config().
RunPostReplies(webhook_env, store) ==
    /\ started = <<>>
    /\ started' = <<[program |-> "post_replies", env |-> {}, webhook_env |-> webhook_env,
                     store |-> store, phase |-> "running"]>>
    /\ webhook' = get_discord_webhook_url(webhook_env, store)
    /\ UNCHANGED exit_code
    /\ UNCHANGED <<shared, lockVars, locals, outcome, pc, procs, driver, enqueued,
                   twitter, listener, backoff, gen,
                   exists, spos, http, csv_file, csv_appended, csv_read>>

InitStartup ==
    /\ InitLocals
    /\ InitStore({<<>>})
    /\ lockPath = 0
    /\ procs = {}
    /\ driver = "main"

NextStartup ==
    \/ \E program \in {"main", "main2", "get_discord_mentions"}, env \in SUBSET EnvNames,
          use_local_model_fallback \in BOOLEAN :
            RunEntryPoint(program, env, use_local_model_fallback)
    \/ \E webhook_env \in WebhookEnvs, store \in SecretStores :
            RunPostReplies(webhook_env, store)
    \/ KeyboardInterrupt

SpecStartup == InitStartup /\ [][NextStartup]_vars

\* ------------------------------------- mentions.csv, character by character
\* MentionsWriter.add_mention: one row is appended (a behaviour has one
\* call).
AddMention(timestamp, message_id, author_id, author_username, keyword) ==
    /\ csv_appended = <<>>
    /\ csv_file' = csv_file \o writerow(<<timestamp, message_id, author_id,
                                           author_username, keyword>>)
    /\ csv_appended' = <<[timestamp |-> timestamp, tweet_id |-> message_id,
                          author_id |-> author_id, author_username |-> author_username,
                          text |-> keyword]>>
    /\ UNCHANGED <<shared, lockVars, locals, outcome, pc, procs, driver, gen, boot, enqueued,
                   twitter, backoff, exists, spos, http, csv_read,
                   processed_messages, raced, channel, seen, after, lpc, history>>

\* MentionsReader.read_mentions: the rows of csv.DictReader, once.
ReadMentionsCsv ==
    /\ csv_read = <<>>
    /\ csv_read' = <<DictReader(csv_file)>>
    /\ UNCHANGED <<shared, lockVars, locals, outcome, pc, procs, driver, gen, boot, enqueued,
                   twitter, backoff, exists, spos, http, csv_file, csv_appended,
                   processed_messages, raced, channel, seen, after, lpc, history>>

InitCsv ==
    /\ InitLocals
    /\ InitStore({<<>>})
    /\ lockPath = 0
    /\ procs = {}
    /\ driver = "simple"

\* A mention with a keyword of letters, commas, double quotes and line
\* feeds, by an author whose name is plain or holds a comma and a quote.
NextCsv ==
    \/ \E keyword \in UNION {[1..n -> {"a", ",", "\"", "\n"}] : n \in 0..MaxCsvText},
          author_username \in {<<"u">>, <<"u", ",", "\"">>} :
            AddMention(<<"2", "0", "2", "5">>, <<"7">>, <<"8">>, author_username, keyword)
    \/ ReadMentionsCsv

SpecCsv == InitCsv /\ [][NextCsv]_vars

\* ----------------------------------- start-up of discord_bot_simple.py
\* "if not os.path.exists('mentions.csv')" of MentionsWriter.ensure_csv_exists
\* (listener thread, in MentionsWriter.__init__) and of run_reply_processor
\* (main thread): the same check-then-create in both.
EnsureCheck(t) ==
    /\ spos[t] = "check"
    /\ spos' = [spos EXCEPT ![t] = IF exists THEN "run" ELSE "open"]
    /\ UNCHANGED <<shared, lockVars, locals, outcome, pc, procs, driver, gen, boot, enqueued,
                   twitter, listener, backoff, exists, http, csv_file, csv_appended, csv_read>>

\* open('mentions.csv', 'w'): the file is created, or emptied when it
\* exists by now; writerow leaves the header in the buffer of f.
EnsureOpen(t) ==
    /\ spos[t] = "open"
    /\ exists' = TRUE
    /\ queue' = <<>>
    /\ hdr' = FALSE
    /\ spos' = [spos EXCEPT ![t] = "header"]
    /\ UNCHANGED <<ledger, delivered, orphans, lockVars, locals, outcome, pc, procs, driver,
                   gen, boot, enqueued, twitter, listener, backoff, http,
                   csv_file, csv_appended, csv_read>>

\* The end of the with block: the header line (51 bytes) is written at
\* offset 0. A line appended since the open is longer than the header
\* (timestamp and two Discord ids alone are more) and loses its first
\* columns: what is left of it follows the header as a line without id and
\* text; later lines stay as they are.
EnsureHeader(t) ==
    /\ spos[t] = "header"
    /\ hdr' = TRUE
    /\ queue' = IF queue = <<>> THEN <<>>
                ELSE <<Row(queue[1].ts, NoId, <<>>, 3)>> \o Tail(queue)
    /\ spos' = [spos EXCEPT ![t] = "run"]
    /\ UNCHANGED <<ledger, delivered, orphans, lockVars, locals, outcome, pc, procs, driver,
                   gen, boot, enqueued, twitter, listener, backoff, exists, http,
                   csv_file, csv_appended, csv_read>>

\* discord_bot_simple.py is started in a directory with or without a
\* mentions.csv (of an earlier run, header and records).
InitSimple ==
    /\ InitPipeline /\ TwitterOff /\ ListenerFresh /\ BackoffOff /\ GenOff
    /\ started = <<>>
    /\ exit_code = <<>>
    /\ webhook = "none"
    /\ exists \in BOOLEAN
    /\ spos = [t \in Threads |-> "check"]
    /\ IF exists THEN InitStore(Queues(MaxShared, RowShapes))
       ELSE /\ InitStore({<<>>})
    /\ lockPath = 0
    /\ procs = {}
    /\ driver = "simple"

\* The two threads run their start-up, the listener then appends the
\* mentions it receives.
NextSimple ==
    \/ \E t \in Threads : EnsureCheck(t) \/ EnsureOpen(t) \/ EnsureHeader(t)
    \/ \E id \in Ids, text \in Texts : OnMessage(id, text) /\ UNCHANGED channel

SpecSimple == InitSimple /\ [][NextSimple]_vars

\* ------------------------------------------------------------ claims
\* The item process i is working on.
Current(i) == mentions[i][idx[i]]

\* Process i is between a successful acquire_lock and its release_lock.
InBatch(i) ==
    pc[i] \in {"load", "read", "item", "send", "save", "rm_read", "rm_trunc", "rm_write",
               "fin_read", "fin_trunc", "fin_write", "ret", "rel_unlock"}

\* This step of process i is its call of send_message.
SendCalled(i) == pc[i] = "send" /\ pc'[i] # "send" /\ outcome'[i] # "crashed"

\* Line k of the batch of process i is a record the batch has to answer: its
\* id was not in the ledger when the batch began and its text has a topic.
Answerable(i, k) ==
    /\ mentions[i][k].tweet_id \notin processed_ids[i]
    /\ ~ TextIsNone(mentions[i][k])
    /\ extract_topic(mentions[i][k].text) # <<>>

\* C1: once a tweet_id is in the processed-ids ledger, no send_message call
\* is made for a record with that tweet_id, also when the queue holds the
\* tweet_id twice inside one batch.
C1_NoSendOnceLedgered ==
    [][\A i \in procs : SendCalled(i) => Current(i).tweet_id \notin ledger]_vars

\* C2: after a crash between the ledger write of a record and the removal of
\* its line, no batch of the restarted process gets to send_message for that
\* record.
C2_NoSendForOrphan ==
    \A i \in procs : pc[i] = "send" => Current(i).tweet_id \notin orphans

\* A batch after the restart has met the orphaned record and skipped it.
C2_Witness ==
    \E i \in procs : \E k \in 1..Len(log[i]) :
        log[i][k][1] = "seen" /\ mentions[i][k].tweet_id \in orphans

\* C3: at most one process is between a successful acquire_lock and its
\* release_lock.
C3_MutualExclusion ==
    \A i, j \in procs : i # j => ~ (InBatch(i) /\ InBatch(j))

\* process i has returned from acquire_lock.
AcquireReturned(i) == pc[i] = "load" \/ (pc[i] = "idle" /\ outcome[i] = "contended")

\* C4: of the concurrent acquire_lock calls on a lock nobody holds, exactly
\* one returns a descriptor and the others return None.
C4_ExactlyOneAcquires ==
    (\A i \in procs : AcquireReturned(i)) => Cardinality({i \in procs : pc[i] = "load"}) = 1

C4_Witness ==
    /\ \A i \in procs : AcquireReturned(i)
    /\ \E i \in procs : outcome[i] = "contended"

\* C5: a process_mentions call that has ended (returned or raised) holds
\* neither the flock nor the lock descriptor.
C5_LockReleasedOnReturn ==
    \A i \in procs : pc[i] \in {"idle", "dead"} => i \notin holds /\ fd[i] = 0

\* A call has ended with an exception of a per-item step, the lock released.
C5_Witness ==
    \E i \in procs : pc[i] \in {"idle", "dead"} /\ outcome[i] = "raised" /\ i \notin holds

\* Another process holds the flock of the inode the descriptor of i is on.
Contended(i) == \E j \in holds : j # i /\ fd[j] = fd[i]

\* C6: when the lock is held by another process, the flock step of
\* process_mentions ends the call at once with False: no second attempt, no
\* generator or Discord call, the queue and the ledger unchanged.
C6_ContentionIsNoOp ==
    [][\A i \in procs :
         (pc[i] = "flock" /\ pc'[i] # "flock" /\ Contended(i) /\ outcome'[i] # "crashed")
           => /\ pc'[i] = "idle"
              /\ outcome'[i] = "contended"
              /\ UNCHANGED <<queue, hdr, ledger, delivered>>]_vars

C6_Witness ==
    \E i, j \in procs : pc[i] = "idle" /\ outcome[i] = "contended" /\ InBatch(j)

\* C7: whenever no process is inside the rewrite of the queue file, every
\* record that was in the queue is still in it or has been delivered.
C7_NoRecordLost ==
    (\A i \in procs : pc[i] \notin {"rm_write", "fin_write"})
      => \A id \in enqueued : id \in RowIds(read_mentions) \/ id \in delivered

\* A record with a topic, not yet in the ledger, is in the queue between
\* batches.
Pending(id) ==
    /\ \A i \in procs : pc[i] = "idle"
    /\ id \notin ledger
    /\ \E k \in 1..Len(read_mentions) :
         /\ read_mentions[k].tweet_id = id
         /\ ~ TextIsNone(read_mentions[k])
         /\ extract_topic(read_mentions[k].text) # <<>>

\* Some batch has generated for the record and is at its Discord call.
PickedUp(id) == \E i \in procs : pc[i] = "send" /\ Current(i).tweet_id = id

\* C8: every record in the queue before a batch is eventually picked up by a
\* batch, whatever is older than it in the queue.
C8_EventuallyPickedUp == \A id \in Ids : Pending(id) ~> PickedUp(id)

\* C9: process_mentions does not raise on a malformed row, and a batch that
\* has ended went through every one of its records.
C9_MalformedRowSkipped ==
    \A i \in procs :
        /\ outcome[i] # "raised"
        /\ (pc[i] = "rel_unlock" /\ outcome[i] # "empty") => Len(log[i]) = Len(mentions[i])

\* C10: at the end of a batch in which a generation call failed, every
\* record of the batch that has a topic was generated for and sent, and is
\* out of the queue if its delivery succeeded.
C10_GenerationFailureIsolated ==
    \A i \in procs :
        (pc[i] = "rel_unlock" /\ \E h \in 1..Len(log[i]) : log[i][h][2] = "apology")
          => \A k \in 1..Len(mentions[i]) :
               Answerable(i, k)
                 => /\ k <= Len(log[i])
                    /\ log[i][k][1] \in {"sent", "failed"}
                    /\ log[i][k][1] = "sent" => mentions[i][k].tweet_id \notin RowIds(read_mentions)

\* The line row is among the lines rows.
RowIn(row, rows) ==
    \E h \in 1..Len(rows) : rows[h].ts = row.ts /\ rows[h].tweet_id = row.tweet_id

\* The batch of process i has ended its loop and its final cleanup.
BatchEnded(i) == pc[i] = "rel_unlock" /\ outcome[i] \in {"true", "false"}

\* send_message failed for line k of the batch of process i.
SendFailedFor(i, k) == k <= Len(log[i]) /\ log[i][k][1] = "failed"

\* Another line of the batch with the tweet_id of line k was delivered.
TwinSent(i, k) ==
    \E h \in 1..Len(log[i]) :
        h # k /\ log[i][h][1] = "sent" /\ mentions[i][h].tweet_id = mentions[i][k].tweet_id

\* This step of process i is a send_message call that answers False.
SendFails(i) == pc[i] = "send" /\ log'[i] # log[i]

\* The batch of process i ended with a failed send for id and delivered no
\* other line with that id.
FailedPending(id) ==
    \E i \in procs : BatchEnded(i)
        /\ \E k \in 1..Len(mentions[i]) :
             SendFailedFor(i, k) /\ ~ TwinSent(i, k) /\ mentions[i][k].tweet_id = id

\* C11 as stated: at the end of a batch every record whose send_message
\* failed is out of the ledger and still in the queue.
C11_FailedStaysPending ==
    \A i \in procs : BatchEnded(i) =>
        \A k \in 1..Len(mentions[i]) : SendFailedFor(i, k) =>
            /\ mentions[i][k].tweet_id \notin ledger
            /\ RowIn(mentions[i][k], read_mentions)

\* C11 amended: a failed send_message writes neither file and the loop goes
\* on with the next record; at the end of the batch the record is out of the
\* ledger and still in the queue, unless another line of the batch with the
\* same tweet_id was delivered; and a later batch attempts it again.
C11_FailedStaysPendingUnlessTwinSent ==
    /\ [][\A i \in procs : SendFails(i) =>
             /\ UNCHANGED <<queue, hdr, ledger>>
             /\ idx[i] < Len(mentions[i]) => pc'[i] = "item" /\ idx'[i] = idx[i] + 1
             /\ idx[i] = Len(mentions[i]) => pc'[i] \in {"fin_read", "ret"}]_vars
    /\ [](\A i \in procs : BatchEnded(i) =>
             \A k \in 1..Len(mentions[i]) : SendFailedFor(i, k) =>
                 \/ TwinSent(i, k)
                 \/ /\ mentions[i][k].tweet_id \notin ledger
                    /\ RowIn(mentions[i][k], read_mentions))
    /\ \A id \in Ids : FailedPending(id) ~> PickedUp(id)

\* A batch ended with a failed record still pending after a delivered one.
C11_Witness ==
    \E i \in procs : BatchEnded(i) /\ \E k, h \in 1..Len(log[i]) :
        /\ SendFailedFor(i, k) /\ ~ TwinSent(i, k)
        /\ log[i][h][1] = "sent"
        /\ RowIn(mentions[i][k], read_mentions)

\* send_message succeeded for line k of the batch of process i.
SentFor(i, k) == k <= Len(log[i]) /\ log[i][k][1] = "sent"

C13_CursorBehindUnreplied ==
    \A t \in 1..Len(timeline) : (t <= cursor /\ timeline[t]) => t \in replied

\* C14: after a cycle in which get_mentions or post_reply raised
\* TooManyRequests the loop sleeps the seconds until the reset plus the
\* buffer, not the poll interval.
C14_RateLimitWait ==
    (tpc = "sleep" /\ tlimit # <<>>) => twait = get_seconds_until_reset(tlimit[1]) + buffer

\* C15: the driver loop never ends: after every outcome of a batch, an
\* exception raised inside it included, it calls process_mentions again.
C15_DriverCallsAgain == \A i \in procs : pc[i] # "dead"

\* Process i is inside remove_mentions_from_csv, past its read of the file.
Rewriting(i) == pc[i] \in {"rm_trunc", "rm_write", "fin_trunc", "fin_write"}

\* C16: a record the listener appended is missing from the queue, without
\* having been delivered, only when it was appended between the read and the
\* write of a remove_mentions_from_csv; that loss is reachable (the witness).
C16_LostOnlyInRewriteWindow ==
    (\A i \in procs : ~ Rewriting(i))
      => \A id \in enqueued : id \in RowIds(queue) \/ id \in delivered \/ id \in raced

\* A record appended during a rewrite is gone, never delivered nor ledgered.
C16_Witness ==
    /\ \A i \in procs : pc[i] = "idle"
    /\ \E id \in raced : id \notin RowIds(queue) /\ id \notin delivered /\ id \notin ledger

\* The lines of rows whose tweet_id is not in S, in the order of rows.
Kept(rows, S) == LET NotNamed(row) == row.tweet_id \notin S IN SelectSeq(rows, NotNamed)

\* remove_mentions_from_csv(S) of process i has returned.
RemoveReturned(i) == pc[i] = "ret"

IsOldest(res, rows, n) ==
    /\ Len(res) = (IF n < Len(rows) THEN n ELSE Len(rows))
    /\ \E f \in [1..Len(res) -> 1..Len(rows)] :
         /\ \A k \in 1..Len(res) : rows[f[k]] = res[k]
         /\ \A a, b \in 1..Len(res) :
              a < b => \/ res[a].ts < res[b].ts
                       \/ res[a].ts = res[b].ts /\ f[a] < f[b]
         /\ \A j \in 1..Len(rows) :
              (\A k \in 1..Len(res) : f[k] # j)
                => \A k \in 1..Len(res) :
                     \/ res[k].ts < rows[j].ts
                     \/ res[k].ts = rows[j].ts /\ f[k] < j

\* C18: get_oldest_mentions(n) returns the min(n, size) lines of smallest
\* timestamp, ascending, equal timestamps in file order, whatever the order of
\* the file, and leaves the file as it is.
C18_OldestFirstStable ==
    /\ [](\A i \in procs : pc[i] = "called" => IsOldest(mentions[i], read_mentions, idx[i]))
    /\ [][UNCHANGED <<queue, hdr>>]_vars

\* A call on a file out of timestamp order with equal timestamps cut a tie.
C18_Witness ==
    \E i \in procs :
        /\ pc[i] = "called" /\ idx[i] = 2 /\ Len(queue) = 3
        /\ queue[1].ts > queue[2].ts /\ queue[2].ts = queue[3].ts
        /\ queue[2] # queue[3]

\* C19: within a batch no send_message is made for a record after one for a
\* record with a later timestamp.
C19_SendsInTimestampOrder ==
    \A i \in procs : pc[i] = "send" =>
        \A k \in 1..(idx[i] - 1) :
            log[i][k][1] \in {"sent", "failed"} => mentions[i][k].ts <= Current(i).ts

\* The second send of a batch whose file has the later line first.
C19_Witness ==
    \E i \in procs :
        /\ pc[i] = "send" /\ idx[i] = 2 /\ log[i][1][1] = "failed"
        /\ Len(queue) >= 2 /\ queue[1].ts > queue[2].ts

\* C20: a batch holds at most NUM_MENTIONS records, so it examines, generates
\* for and sends at most NUM_MENTIONS, whatever the length of the queue.
C20_BatchBounded ==
    \A i \in procs :
        /\ Len(mentions[i]) <= NUM_MENTIONS
        /\ idx[i] <= NUM_MENTIONS
        /\ Len(log[i]) <= NUM_MENTIONS

\* A batch on a longer queue sent for NUM_MENTIONS records and ended.
C20_Witness ==
    \E i \in procs :
        /\ BatchEnded(i)
        /\ Len(log[i]) = NUM_MENTIONS
        /\ \A k \in 1..NUM_MENTIONS : log[i][k][1] \in {"sent", "failed"}
        /\ Len(read_mentions) + Cardinality({k \in 1..NUM_MENTIONS : log[i][k][1] = "sent"}) > NUM_MENTIONS

\* The n ids most recently handed to add_mention.
RECURSIVE Newest(_, _)
Newest(order, n) ==
    IF n = 0 \/ order = <<>> THEN {}
    ELSE LET last == order[Len(order)]
             front == SelectSeq(SubSeq(order, 1, Len(order) - 1), LAMBDA x : x # last)
         IN  {last} \cup Newest(front, n - 1)

\* C21: within one listener run, whatever the interleaving of on_message
\* events and history scans, a message id is appended to the queue at most
\* once.
C21_AppendedAtMostOnce ==
    \A a, b \in 1..Len(seen) : seen[a] = seen[b] => a = b

\* C22: the set of seen message ids stays within its cap, and a trim discards
\* the oldest-seen ids: what is left are the most recently seen ones.
C22_SeenSetCappedOldestEvicted ==
    /\ [](Cardinality(processed_messages) <= SeenCap)
    /\ [][~ (processed_messages \subseteq processed_messages')
            => processed_messages' = Newest(seen', Cardinality(processed_messages'))]_vars

C24_SecondsNonNegativeNoRaise ==
    wresult # <<>> =>
        /\ ~ wresult[1].raised
        /\ wresult[1].seconds \in Nat
        /\ ~ wsignal[1].has_reset =>
              wresult[1].seconds \in {default_wait, reset_default, reset_default + safety_buffer}

RECURSIVE SumSeq(_)
SumSeq(q) == IF q = <<>> THEN 0 ELSE Head(q) + SumSeq(Tail(q))

\* max(R - now, 0) plus the safety buffer, once.
ResetPlusBuffer(e) == (IF e.delta > 0 THEN e.delta ELSE 0) + buffer

\* C25: for a signal with reset timestamp R the time waited before the retry
\* is max(R - now, 0) plus the safety buffer, once, on every backoff path.
C25_WaitIsResetPlusBufferOnce ==
    /\ [][(WaitDone /\ wsignal # <<>> /\ wsignal[1].has_reset)
            => SumSeq(slices) = ResetPlusBuffer(wsignal[1])]_vars
    /\ []((tpc = "sleep" /\ tlimit # <<>> /\ tlimit[1].has_reset)
            => twait = ResetPlusBuffer(tlimit[1]))

\* C26: a wait loop ends; it sleeps in slices of at most 30 seconds that add
\* up to the total when that is positive, not at all when it is not, and
\* logs one progress message for each slice.
C26_WaitInSlices ==
    /\ [](mpc \in WaitingAt =>
            /\ \A k \in 1..Len(slices) : slices[k] \in 1..SLICE
            /\ logged = Len(slices)
            /\ IF wtotal > 0
               THEN sleep_left >= 0 /\ SumSeq(slices) + sleep_left = wtotal
               ELSE slices = <<>>)
    /\ [][WaitDone => (IF wtotal > 0 THEN SumSeq(slices) = wtotal ELSE slices = <<>>)]_vars
    /\ (mpc \in WaitingAt) ~> (mpc \notin WaitingAt)

C26_Witness ==
    /\ mpc = "lib"
    /\ wsignal = <<>>
    /\ Len(slices) = 2
    /\ slices[2] < SLICE
    /\ logged = 2

\* text ends with sub
EndsWith(text, sub) ==
    /\ Len(text) >= Len(sub)
    /\ SubSeq(text, Len(text) - Len(sub) + 1, Len(text)) = sub

\* C27: when generation fails (every enabled strategy raised, the API
\* answered with another status than 200, the request timed out) the
\* generate call returns the fixed apology for the subject, which ends with
\* the marker #ELI5.
C27_FailureGivesApology ==
    (gcall # <<>> /\ gcall[1].failed) =>
        /\ gresponse = (IF gcall[1].program = "post_replies"
                        THEN ApologyNow(gcall[1].subject)
                        ELSE ApologyLater(gcall[1].subject))
        /\ EndsWith(gresponse, Marker)

C27_Witness ==
    /\ gcall # <<>>
    /\ gcall[1].failed
    /\ gcall[1].program = "main"
    /\ EndsWith(gresponse, Marker)

\* C28: the string generate_eli5_response returns for a text a strategy
\* produced ends with the marker #ELI5, also when the raw text has #ELI5
\* somewhere before its end.
C28_ResponseEndsWithMarker ==
    (gcall # <<>> /\ gcall[1].program \in {"main", "app"} /\ ~ gcall[1].failed)
        => EndsWith(gresponse, Marker)

\* C29: with a required credential or id missing at start-up the entry point
\* ends with a non-zero exit code; exit code 0 comes from a graceful stop
\* only.
C29_MissingCredentialExitsNonZero ==
    exit_code = <<0>> => started[1].phase = "stopped"

\* C30: when the Discord webhook URL is neither in the environment nor in
\* the secrets store, the configuration of the reply pipeline fails at
\* start-up: it does not go on with a built-in value.
C30_WebhookNeverDefaulted ==
    webhook # "hardcoded"

\* C32: in every reachable state the ledger is a subset of the delivered
\* ids: an id is in the processed-ids file only after send_message answered
\* True for a record with that id.
C32_LedgerWithinDelivered ==
    ledger \subseteq delivered

\* An id was written to the ledger after its delivery, the removal of its
\* line is next.
C32_Witness ==
    \E i \in procs : pc[i] = "rm_read" /\ Current(i).tweet_id \in ledger \cap delivered

\* C33: a record process_mentions removes from the queue has its id in the
\* processed-ids file: while a rewrite of the queue file has dropped the
\* lines of the batch's delivered ids, these ids are all in the ledger,
\* also when the ledger write failed.
C33_RemovedOnlyOnceLedgered ==
    \A i \in procs : pc[i] \in {"rm_write", "fin_write"} =>
        processed_tweet_ids[i] \subseteq ledger

\* C34: the loop body run on a record whose text leaves no topic (handle and
\* hashtag only) calls neither the generator nor the Discord client, writes
\* neither file and goes on with the next record (or the batch's end).
C34_EmptyTopicSkipped ==
    [][\A i \in procs :
         ( /\ pc[i] = "item"
           /\ Current(i).tweet_id \notin processed_ids[i]
           /\ ~ TextIsNone(Current(i))
           /\ Current(i).text = TextBlank
           /\ outcome'[i] # "crashed"
           /\ (pc'[i] # pc[i] \/ idx'[i] # idx[i]) )
         => /\ pc'[i] = AfterItem(i)
            /\ pc'[i] # "send"
            /\ idx[i] < Len(mentions[i]) => (pc'[i] = "item" /\ idx'[i] = idx[i] + 1)
            /\ explanation'[i] = explanation[i]
            /\ outcome'[i] = outcome[i]
            /\ log'[i] = Append(log[i], <<"notopic", "none">>)
            /\ <<queue, hdr, ledger, delivered>>' = <<queue, hdr, ledger, delivered>>]_vars

\* A record without topic was skipped and the batch is at its next record.
C34_Witness ==
    \E i \in procs : /\ pc[i] = "item"
                      /\ idx[i] > 1
                      /\ log[i][idx[i] - 1] = <<"notopic", "none">>
                      /\ mentions[i][idx[i] - 1].text = TextBlank

\* The lines of the queue file whose record is not yet delivered and
\* ledgered.
Unprocessed ==
    {k \in 1..Len(read_mentions) : read_mentions[k].tweet_id \notin (delivered \cap ledger)}

\* C35: process_mentions returns True exactly when unprocessed records are
\* in the queue after the batch, and False otherwise (a queue found empty
\* included).
C35_TrueIffUnprocessedRemain ==
    \A i \in procs : pc[i] = "rel_unlock" =>
        /\ outcome[i] \in {"true", "false"} => (outcome[i] = "true" <=> Unprocessed # {})
        /\ outcome[i] = "empty" => Unprocessed = {}

\* C36: the text _format_for_twitter / _format_response returns is at most
\* the maximum length long, whatever text the strategy produced (the
\* apologies are not formatted and are left out).
C36_ResponseWithinMax ==
    \A k \in 1..Len(gcall) :
        (gcall[k].program \in {"main", "app"} /\ ~ gcall[k].failed) =>
            Len(gresponse) <= (IF gcall[k].program = "main" THEN MAX_TWEET_LENGTH
                               ELSE MAX_RESPONSE_LENGTH)

\* C37: in fetch_mentions the cursor moves only past mentions that are in
\* the queue file: when log_mentions could not write the fetched mentions
\* the cursor keeps its value.
C37_CursorOnlyPastPersisted ==
    [][(mpc = "get" /\ cursor' # cursor) =>
          \A k \in 1..Len(get_mentions(cursor)) :
              get_mentions(cursor)[k] <= cursor' =>
                  get_mentions(cursor)[k] \in RowIds(queue')]_vars

\* C38: creating the queue file at start-up destroys no queued record:
\* once both threads of discord_bot_simple.py are past their
\* check-then-create, every record that was in the file or was appended to
\* it is in it.
C38_StartupKeepsRecords ==
    (\A t \in Threads : spos[t] = "run") =>
        \A id \in enqueued : id \in RowIds(read_mentions)

\* C39: /explain answers a subject that is empty after trimming with status
\* 400 "Subject cannot be empty" and does not call the generator.
C39_BlankSubjectIs400 ==
    \A k \in 1..Len(http) :
        (Len(http[k].subject) >= 1 /\ \A c \in 1..Len(http[k].subject) : http[k].subject[c] = " ")
            => /\ http[k].status = 400
               /\ http[k].detail = "Subject cannot be empty"
               /\ gcall = <<>>

\* C31: a record appended with add_mention and then read with
\* read_mentions comes back with the timestamp, tweet_id, author_id,
\* author_username and text it was appended with, whatever double quotes
\* and commas the text holds: what a read returns is the records appended
\* before it.
C31_RoundTrip ==
    [][(csv_read = <<>> /\ csv_read' # <<>>) => csv_read'[1] = csv_appended]_vars

\* A text with a comma and a double quote in it was appended and read.
C31_Witness ==
    /\ csv_appended # <<>>
    /\ csv_read # <<>>
    /\ Len(csv_read[1]) = 1
    /\ \E j, k \in 1..Len(csv_appended[1].text) :
          csv_appended[1].text[j] = "," /\ csv_appended[1].text[k] = "\""

====
